---- MODULE Spec2Model ----
(***************************************************************************)
(* Model of the hashgraph voter: the gossip graph (src/src/vote/graph.rs), *)
(* the events (src/src/event.rs) and the round engine                      *)
(* (src/src/vote/vote.rs).                                                 *)
(*                                                                         *)
(* A hash is modelled by the number the event got when it was created, an  *)
(* author by a number, a SystemTime by a number, and a 64-byte signature   *)
(* by a natural number whose numeric order is the lexicographic order of   *)
(* the bytes.  Option<T> is the empty set (None) or a singleton (Some).    *)
(***************************************************************************)
EXTENDS Integers, Sequences, FiniteSets, TLC

VARIABLES voter, log, panicked, stale, voter2, log2, panicked2, stale2, last, nodes, chain,
          acl, txq, machine, files

vars == <<voter, log, panicked, stale, voter2, log2, panicked2, stale2, last, nodes, chain,
          acl, txq, machine, files>>

(***************************************************************************)
(* Bounds of the model.                                                    *)
(***************************************************************************)
\* Number of events created in a run of Spec.
MaxEvents == 7
\* Number of events created in a run of SpecSilent.
MaxSilentEvents == 9
\* Number of events created in a run of SpecTwo.
MaxTwoEvents == 10
\* Timestamps an author may claim are 0..MaxTime.
MaxTime == 1

\* Number of events stored in a run of SpecGraph.
MaxGraphEvents == 5
\* Seqs a peer may report in SpecGraph are 0..MaxPeerSeq.
MaxPeerSeq == 2

\* Number of events created in a run of SpecInbound.
MaxInboundEvents == 5

\* SpecChain: the authors are 1..MaxChainAuthor.
MaxChainAuthor == 4

\* SpecChain: no block is proposed on a chain of MaxBlock blocks, committed or
\* dropped.
MaxBlock == 2

\* SpecReplay: the authors are 1..MaxReplayAuthor.
MaxReplayAuthor == 3

\* SpecReplay: no block is proposed on a chain of MaxReplayBlock blocks,
\* committed or dropped.
MaxReplayBlock == 3

\* SpecAcl: the authors are 1..MaxAclAuthor.
MaxAclAuthor == 2

\* SpecQueue: the transactions are 1..MaxTransaction.
MaxTransaction == 2

\* SpecQueue: the local callers submit up to MaxSubmissions transactions.
MaxSubmissions == 3

\* SpecQueue: up to MaxForeign transactions of other nodes are committed.
MaxForeign == 2
MaxCheckpointAuthor == 3
MaxCheckpointBlock == 2
MaxExports == 1
KeptItems == 3
\* Number of events stored in a run of SpecParent.
MaxParentEvents == 4
\* Number of events created in a run of SpecReadd.
MaxReaddEvents == 7
\* Number of events created in a run of SpecSign.
MaxSignEvents == 5
\* Number of events handed to the voter in a run of SpecStart.
MaxStartEvents == 5

\* SpecVote: the distance of the voter's round from the witness's round, the
\* yes and no votes it collects, and the size of the committee.
MaxDiff == 21
MaxVotes == 3
MaxVotePopulation == 4

\* vote.rs:10
FREQ_COIN_ROUNDS == 10

None == {}
Some(x) == {x}
IsSome(o) == o # {}
Unwrap(o) == CHOOSE x \in o : TRUE

Last(s) == s[Len(s)]
Front(s) == SubSeq(s, 1, Len(s) - 1)
Range(s) == {s[i] : i \in 1..Len(s)}
Max(a, b) == IF a >= b THEN a ELSE b
SetMax(S) == CHOOSE x \in S : \A y \in S : y <= x
SetMin(S) == CHOOSE x \in S : \A y \in S : x <= y

RECURSIVE Xor(_, _)
\* vote.rs xor: bytewise exclusive or of two signatures.
Xor(x, y) ==
  IF x = 0 THEN y
  ELSE IF y = 0 THEN x
  ELSE ((((x % 2) + (y % 2)) % 2) + (2 * Xor(x \div 2, y \div 2)))

\* signature().to_bytes()[32] & 1: the coin bit of a signature.
CoinBit(sig) == sig % 2

(***************************************************************************)
(* Events (event.rs).                                                      *)
(***************************************************************************)
\* Event::new: the derived fields start absent.
NewEvent(raw, hash, seq) ==
  [ author             |-> raw.author,
    self_hash          |-> raw.self_hash,
    other_hash         |-> raw.other_hash,
    time               |-> raw.time,
    signature          |-> raw.signature,
    hash               |-> hash,
    seq                |-> seq,
    parents            |-> (IF IsSome(raw.self_hash) THEN <<Unwrap(raw.self_hash)>> ELSE <<>>)
                           \o (IF IsSome(raw.other_hash) THEN <<Unwrap(raw.other_hash)>> ELSE <<>>),
    children           |-> <<>>,
    round_created      |-> None,
    witness            |-> None,
    votes              |-> << >>,
    famous             |-> None,
    round_received     |-> None,
    time_received      |-> None,
    whitened_signature |-> None ]

\* impl PartialOrd for Event: None when a compared field is absent, else
\* "lt", "eq" or "gt" by (round_received, time_received, whitened_signature).
partial_cmp(a, b) ==
  IF ~(IsSome(a.round_received) /\ IsSome(b.round_received)) THEN None
  ELSE IF Unwrap(a.round_received) # Unwrap(b.round_received)
    THEN Some(IF Unwrap(a.round_received) < Unwrap(b.round_received) THEN "lt" ELSE "gt")
  ELSE IF ~(IsSome(a.time_received) /\ IsSome(b.time_received)) THEN None
  ELSE IF Unwrap(a.time_received) # Unwrap(b.time_received)
    THEN Some(IF Unwrap(a.time_received) < Unwrap(b.time_received) THEN "lt" ELSE "gt")
  ELSE IF ~(IsSome(a.whitened_signature) /\ IsSome(b.whitened_signature)) THEN None
  ELSE Some(IF Unwrap(a.whitened_signature) < Unwrap(b.whitened_signature) THEN "lt"
            ELSE IF Unwrap(a.whitened_signature) = Unwrap(b.whitened_signature) THEN "eq"
            ELSE "gt")

(***************************************************************************)
(* Gossip graph (vote/graph.rs).  A graph is a record                      *)
(* [state, events, root]: events maps the stored hashes to their events.   *)
(***************************************************************************)
EmptyGraph == [state |-> << >>, events |-> << >>, root |-> None]

\* Graph::parents: the stored parents of an event, self-parent first.
parents(g, e) == SelectSeq(g.events[e].parents, LAMBDA h : h \in DOMAIN g.events)

\* Graph::children
children(g, e) == SelectSeq(g.events[e].children, LAMBDA h : h \in DOMAIN g.events)

\* Graph::self_parent
self_parent(g, e) ==
  IF IsSome(g.events[e].self_hash) /\ Unwrap(g.events[e].self_hash) \in DOMAIN g.events
  THEN g.events[e].self_hash ELSE None

RECURSIVE AncestorIter(_, _, _)
\* AncestorIter::next run to the end: the sequence of events it yields.
AncestorIter(g, stack, visited) ==
  IF stack = <<>> THEN <<>>
  ELSE LET event == Last(stack)
           seen  == visited \cup {event}
           push  == SelectSeq(parents(g, event), LAMBDA p : p \notin seen)
       IN  <<event>> \o AncestorIter(g, Front(stack) \o push, seen)

RECURSIVE DecendantIter(_, _, _)
\* DecendantIter::next run to the end.
DecendantIter(g, stack, visited) ==
  IF stack = <<>> THEN <<>>
  ELSE LET event == Last(stack)
           seen  == visited \cup {event}
           push  == SelectSeq(children(g, event), LAMBDA c : c \notin seen)
       IN  <<event>> \o DecendantIter(g, Front(stack) \o push, seen)

RECURSIVE SelfAncestorIter(_, _)
\* SelfAncestorIter::next run to the end: the event, then its self-parents.
SelfAncestorIter(g, event) ==
  IF event = None THEN <<>>
  ELSE <<Unwrap(event)>> \o SelfAncestorIter(g, self_parent(g, Unwrap(event)))

\* Graph::ancestors
ancestors(g, x) == AncestorIter(g, <<x>>, {})
\* Graph::decendants
decendants(g, x) == DecendantIter(g, <<x>>, {})
\* Graph::self_ancestors
self_ancestors(g, x) == SelfAncestorIter(g, Some(x))

\* Graph::ancestor(x, y): y is found among the ancestors of x.
ancestor(g, x, y) == y \in Range(ancestors(g, x))
\* Graph::self_ancestor(x, y): y is found among the self-ancestors of x.
self_ancestor(g, x, y) == y \in Range(self_ancestors(g, x))

\* see without the search for a fork: y is found among the ancestors of x.
see_any_ancestor(g, x, y) == \E i \in 1..Len(ancestors(g, x)) : ancestors(g, x)[i] = y

\* Graph::see
see(g, x, y) ==
  LET anc == ancestors(g, x)
      is_ancestor == \E i \in 1..Len(anc) : anc[i] = y
      created == SelectSeq(anc, LAMBDA a : g.events[a].author = g.events[y].author)
  IN  IF ~is_ancestor THEN FALSE
      ELSE \A i \in 1..Len(created) : \A j \in (i + 1)..Len(created) :
             self_ancestor(g, created[i], created[j])
             \/ self_ancestor(g, created[j], created[i])

\* Graph::strongly_see
strongly_see(g, x, y, authors) ==
  LET dec == decendants(g, y)
      anc == ancestors(g, x)
      ymin(a) == LET s == {g.events[dec[i]].seq : i \in {k \in 1..Len(dec) : g.events[dec[k]].author = a}}
                 IN  IF s = {} THEN None ELSE Some(SetMin(s))
      xmax(a) == LET s == {g.events[anc[i]].seq : i \in {k \in 1..Len(anc) : g.events[anc[k]].author = a}}
                 IN  IF s = {} THEN None ELSE Some(SetMax(s))
      number_of_authors_see ==
        Cardinality({i \in 1..Len(authors) :
          LET yy == ymin(authors[i])
              xx == xmax(authors[i])
          IN  IsSome(yy) /\ IsSome(xx) /\ Unwrap(xx) >= Unwrap(yy)})
  IN  number_of_authors_see >= Len(authors) - (Len(authors) \div 3)

\* add_event with the signature verified after the parents got their child:
\* an event whose signature does not verify leaves its hash in the children
\* of its parents.
GraphAddEvent_verify_late(g, raw) ==
  LET selfOk  == raw.self_hash = None \/ Unwrap(raw.self_hash) \in DOMAIN g.events
      otherOk == raw.other_hash = None \/ Unwrap(raw.other_hash) \in DOMAIN g.events
  IN  IF ~selfOk \/ ~otherOk THEN [ok |-> FALSE, graph |-> g, hash |-> raw.hash]
      ELSE
        LET seq   == IF IsSome(raw.self_hash) THEN g.events[Unwrap(raw.self_hash)].seq + 1 ELSE 1
            event == NewEvent(raw, raw.hash, seq)
            withChild == [h \in DOMAIN g.events |->
                            IF h \in Range(event.parents)
                            THEN [g.events[h] EXCEPT !.children = Append(@, raw.hash)]
                            ELSE g.events[h]]
            evs   == [h \in (DOMAIN g.events) \cup {raw.hash} |->
                        IF h = raw.hash THEN event ELSE withChild[h]]
            st    == [a \in (DOMAIN g.state) \cup {raw.author} |->
                        IF a = raw.author THEN seq ELSE g.state[a]]
        IN  IF ~raw.valid
            THEN [ok |-> FALSE, graph |-> [g EXCEPT !.events = withChild], hash |-> raw.hash]
            ELSE [ok |-> TRUE, graph |-> [state |-> st, events |-> evs, root |-> Some(raw.hash)],
                  hash |-> raw.hash]

\* add_event that registers the new hash as a child of the self-parent only.
GraphAddEvent_self_child(g, raw) ==
  LET selfOk  == raw.self_hash = None \/ Unwrap(raw.self_hash) \in DOMAIN g.events
      otherOk == raw.other_hash = None \/ Unwrap(raw.other_hash) \in DOMAIN g.events
  IN  IF ~selfOk \/ ~otherOk \/ ~raw.valid
      THEN [ok |-> FALSE, graph |-> g, hash |-> raw.hash]
      ELSE
        LET seq   == IF IsSome(raw.self_hash) THEN g.events[Unwrap(raw.self_hash)].seq + 1 ELSE 1
            event == NewEvent(raw, raw.hash, seq)
            evs   == [h \in (DOMAIN g.events) \cup {raw.hash} |->
                        IF h = raw.hash THEN event
                        ELSE IF h \in raw.self_hash
                          THEN [g.events[h] EXCEPT !.children = Append(@, raw.hash)]
                        ELSE g.events[h]]
            st    == [a \in (DOMAIN g.state) \cup {raw.author} |->
                        IF a = raw.author THEN seq ELSE g.state[a]]
        IN  [ok |-> TRUE, graph |-> [state |-> st, events |-> evs, root |-> Some(raw.hash)],
             hash |-> raw.hash]

\* Graph::add_event.  The result is [ok, graph, hash]; the parents are
\* looked up and the signature (raw.valid: whether it verifies) is checked
\* before the graph is written, so on an error the graph is the one passed in.
GraphAddEvent(g, raw) ==
  LET selfOk  == raw.self_hash = None \/ Unwrap(raw.self_hash) \in DOMAIN g.events
      otherOk == raw.other_hash = None \/ Unwrap(raw.other_hash) \in DOMAIN g.events
  IN  IF ~selfOk \/ ~otherOk \/ ~raw.valid
      THEN [ok |-> FALSE, graph |-> g, hash |-> raw.hash]
      ELSE
        LET seq   == IF IsSome(raw.self_hash) THEN g.events[Unwrap(raw.self_hash)].seq + 1 ELSE 1
            hash  == raw.hash
            event == NewEvent(raw, hash, seq)
            withChild == [h \in DOMAIN g.events |->
                            LET n == Len(SelectSeq(event.parents, LAMBDA p : p = h))
                            IN  IF n = 0 THEN g.events[h]
                                ELSE [g.events[h] EXCEPT !.children =
                                        @ \o [k \in 1..n |-> hash]]]
            evs   == [h \in (DOMAIN g.events) \cup {hash} |->
                        IF h = hash THEN event ELSE withChild[h]]
            st    == [a \in (DOMAIN g.state) \cup {raw.author} |->
                        IF a = raw.author THEN seq ELSE g.state[a]]
        IN  [ok |-> TRUE, graph |-> [state |-> st, events |-> evs, root |-> Some(hash)],
             hash |-> hash]

\* Graph::sync_state: the last seq the graph recorded for each author.
sync_state(g, authors) ==
  [i \in 1..Len(authors) |->
     IF authors[i] \in DOMAIN g.state THEN Some(g.state[authors[i]]) ELSE None]

\* The lookup with unwrap_or(1): an author the peer does not report counts
\* as known up to seq 1.
StateGet_or_one(state, a) == IF a \in DOMAIN state THEN state[a] ELSE 1

\* state.get(&author).cloned().unwrap_or(0)
StateGet(state, a) == IF a \in DOMAIN state THEN state[a] ELSE 0

RECURSIVE SyncLoop_no_black(_, _, _, _, _)
\* The loop of sync without the test `black.contains(&event.hash())` on the
\* event it pops.
SyncLoop_no_black(g, state, stack, black, post_order) ==
  IF stack = <<>> THEN post_order
  ELSE LET event == Last(stack)
       IN  IF g.events[event].seq <= StateGet(state, g.events[event].author)
             THEN SyncLoop_no_black(g, state, Front(stack), black \cup {event}, post_order)
           ELSE IF SelectSeq(parents(g, event), LAMBDA q : q \notin black) = <<>>
             THEN SyncLoop_no_black(g, state, Front(stack), black \cup {event},
                                    Append(post_order, event))
           ELSE SyncLoop_no_black(g, state,
                                  stack \o SelectSeq(parents(g, event), LAMBDA q : q \notin black),
                                  black, post_order)

RECURSIVE SyncLoop(_, _, _, _, _)
\* Graph::sync, the loop over the stack: the post-order it has built when the
\* stack is empty.  The top of the stack is its last element.
SyncLoop(g, state, stack, black, post_order) ==
  IF stack = <<>> THEN post_order
  ELSE LET event == Last(stack)
       IN  IF event \in black
             THEN SyncLoop(g, state, Front(stack), black, post_order)
           ELSE IF g.events[event].seq <= StateGet(state, g.events[event].author)
             THEN SyncLoop(g, state, Front(stack), black \cup {event}, post_order)
           ELSE IF SelectSeq(parents(g, event), LAMBDA q : q \notin black) = <<>>
             THEN SyncLoop(g, state, Front(stack), black \cup {event},
                           Append(post_order, event))
           ELSE SyncLoop(g, state,
                         stack \o SelectSeq(parents(g, event), LAMBDA q : q \notin black),
                         black, post_order)

\* Graph::sync: the hashes of the raw events it yields, in order.
sync(g, state) ==
  SyncLoop(g, state, IF IsSome(g.root) THEN <<Unwrap(g.root)>> ELSE <<>>, {}, <<>>)

(***************************************************************************)
(* Rounds and the voter (vote/vote.rs).  A voter is a record               *)
(* [graph, rounds]; a round is a record with the fields of struct Round.   *)
(***************************************************************************)
\* Round::new
NewRound(round, block, authors) ==
  [ round |-> round, block |-> block, authors |-> authors,
    freq_coin_rounds |-> FREQ_COIN_ROUNDS, witnesses |-> <<>>,
    decided |-> FALSE, unique_famous_witnesses |-> <<>> ]

\* Round::population
population(r) == Len(r.authors)

\* Round::threshold
threshold(r) == (2 * population(r)) \div 3

\* Voter::new
NewVoter == [graph |-> EmptyGraph, rounds |-> <<>>]

\* Voter::round: the first round with this number, if any.
round(rounds, n) ==
  LET idx == {i \in 1..Len(rounds) : rounds[i].round = n}
  IN  IF idx = {} THEN None ELSE Some(rounds[SetMin(idx)])

\* Voter::round_mut, as the index of the round in the list.
round_mut(rounds, n) ==
  LET idx == {i \in 1..Len(rounds) : rounds[i].round = n}
  IN  IF idx = {} THEN None ELSE Some(SetMin(idx))

\* SetRound with `round_num >= parent_round_num` for is_witness: every event
\* that stays in the round of its self-parent becomes a witness.
SetRound_ge(v, g, hash, start_round, parent_round_num, round_num) ==
  LET is_witness == round_num >= parent_round_num
      target     == round_mut(v.rounds, round_num)
  IN  [ok |-> TRUE, panic |-> FALSE, hash |-> hash,
       voter |->
         [graph |-> [g EXCEPT !.events[hash].round_created = Some(round_num),
                              !.events[hash].witness = Some(is_witness)],
          rounds |->
            IF IsSome(target)
              THEN [v.rounds EXCEPT ![Unwrap(target)].witnesses = Append(@, hash)]
            ELSE Append(v.rounds,
                   [NewRound(round_num, start_round.block, start_round.authors)
                      EXCEPT !.witnesses = <<hash>>])]]

\* Voter::add_event, from `let is_witness` on: the witness joins its round,
\* which start_round() opens if there is none, and the event gets its
\* round_created and witness.
SetRound(v, g, hash, start_round, parent_round_num, round_num) ==
  LET is_witness == round_num > parent_round_num
      target     == round_mut(v.rounds, round_num)
  IN  IF is_witness /\ target = None /\ ~start_round.ok
      THEN \* start_round()? returns the error: the event stays in the graph
           [ok |-> FALSE, panic |-> FALSE, voter |-> [v EXCEPT !.graph = g], hash |-> hash]
      ELSE [ok |-> TRUE, panic |-> FALSE, hash |-> hash,
            voter |->
              [graph |-> [g EXCEPT !.events[hash].round_created = Some(round_num),
                                   !.events[hash].witness = Some(is_witness)],
               rounds |->
                 IF ~is_witness THEN v.rounds
                 ELSE IF IsSome(target)
                   THEN [v.rounds EXCEPT ![Unwrap(target)].witnesses = Append(@, hash)]
                 ELSE Append(v.rounds,
                        [NewRound(round_num, start_round.block, start_round.authors)
                           EXCEPT !.witnesses = <<hash>>])]]

\* next_round with `n_strongly_see >= r.threshold()`.
next_round_ge(v, g, hash, max_parent_round_num) ==
  LET parent_round == round(v.rounds, max_parent_round_num)
  IN  IF parent_round = None THEN TRUE
      ELSE Len(SelectSeq(Unwrap(parent_round).witnesses,
                 LAMBDA w : strongly_see(g, hash, w, Unwrap(parent_round).authors)))
             >= threshold(Unwrap(parent_round))

\* Voter::add_event, `next_round`: the event strongly sees more than
\* threshold witnesses of the round max_parent_round_num, or there is no such
\* round.
next_round(v, g, hash, max_parent_round_num) ==
  LET parent_round == round(v.rounds, max_parent_round_num)
  IN  IF parent_round = None THEN TRUE
      ELSE Len(SelectSeq(Unwrap(parent_round).witnesses,
                 LAMBDA w : strongly_see(g, hash, w, Unwrap(parent_round).authors)))
             > threshold(Unwrap(parent_round))

\* Voter::add_event, `round_num`.
AssignRound(v, g, hash, start_round, parent_round_num, max_parent_round_num) ==
  SetRound(v, g, hash, start_round, parent_round_num,
           IF next_round(v, g, hash, max_parent_round_num)
           THEN max_parent_round_num + 1 ELSE max_parent_round_num)

\* Voter::add_event, the round numbers of the parents (0 for no parent);
\* round_created().unwrap() panics on a parent that has no round.
ParentRounds(v, g, hash, start_round, pOpt, oOpt) ==
  IF pOpt = None \/ oOpt = None
  THEN [ok |-> FALSE, panic |-> TRUE, voter |-> [v EXCEPT !.graph = g], hash |-> hash]
  ELSE AssignRound(v, g, hash, start_round, Unwrap(pOpt), Max(Unwrap(pOpt), Unwrap(oOpt)))

\* Voter::add_event after self.graph.add_event(event)?
AfterGraphAdd(v, raw, start_round, added) ==
  IF ~added.ok
  THEN [ok |-> FALSE, panic |-> FALSE, voter |-> [v EXCEPT !.graph = added.graph],
        hash |-> added.hash]
  ELSE ParentRounds(v, added.graph, added.hash, start_round,
         IF IsSome(raw.self_hash)
         THEN added.graph.events[Unwrap(raw.self_hash)].round_created ELSE Some(0),
         IF IsSome(raw.other_hash)
         THEN added.graph.events[Unwrap(raw.other_hash)].round_created ELSE Some(0))

\* Voter::add_event.  start_round is the result the callback returns when it
\* is called: [ok, block, authors].  The result is [ok, panic, voter, hash].
VoterAddEvent(v, raw, start_round) ==
  AfterGraphAdd(v, raw, start_round, GraphAddEvent(v.graph, raw))

\* Voter::sync_state: the block of the last round and the seqs of its
\* authors; rounds.last().unwrap() panics when there is no round.
VoterSyncState(v) ==
  IF v.rounds = <<>> THEN [panic |-> TRUE, block |-> 0, seq |-> <<>>]
  ELSE [panic |-> FALSE, block |-> Last(v.rounds).block,
        seq |-> sync_state(v.graph, Last(v.rounds).authors)]

\* Voter::sync: the authors of the first round of this block are zipped with
\* the seqs of the peer, the absent ones dropped, and the graph is asked for
\* the events after them; Error::InvalidSync when no round has the block.
VoterSync(v, block, seq) ==
  LET idx == {i \in 1..Len(v.rounds) : v.rounds[i].block = block}
  IN  IF idx = {} THEN [ok |-> FALSE, stream |-> <<>>]
      ELSE LET authors == v.rounds[SetMin(idx)].authors
               zipped  == {i \in 1..Len(authors) : i <= Len(seq) /\ IsSome(seq[i])}
               state   == [a \in {authors[i] : i \in zipped} |->
                             Unwrap(seq[SetMax({i \in zipped : authors[i] = a})])]
           IN  [ok |-> TRUE, stream |-> sync(v.graph, state)]

RECURSIVE WitnessIter(_, _, _)
\* WitnessIter over rounds[i..]: the (voter, round, diff) triples it yields,
\* from its position (ri, wi = 0) on.  slice is rounds[i..], ri is 0-based.
WitnessIter(slice, ri, acc) ==
  IF ri + 1 > Len(slice) THEN acc
  ELSE WitnessIter(slice, ri + 1,
         acc \o [k \in 1..Len(slice[ri + 1].witnesses) |->
                   [voter |-> slice[ri + 1].witnesses[k], round |-> slice[ri + 1], diff |-> ri]])

\* votes.insert(witness, vote) on the event of voter.
InsertVote(g, v, witness, vote) ==
  [g EXCEPT !.events[v].votes =
     [h \in (DOMAIN @) \cup {witness} |-> IF h = witness THEN vote ELSE @[h]]]

\* decide_fame, `votes`: the witnesses of the voter's parent round that the
\* voter strongly sees and that hold a vote on witness.
StronglySeenVotes(g, rounds, witness, it) ==
  LET parent_round == Unwrap(round(rounds, it.round.round - 1))
  IN  SelectSeq(SelectSeq(parent_round.witnesses,
                          LAMBDA w : strongly_see(g, it.voter, w, parent_round.authors)),
                LAMBDA w : witness \in DOMAIN g.events[w].votes)

\* decide_fame, from `let no_votes` to the end of the loop body: the vote of
\* it.voter from the counts, and the decision when num_votes > threshold.
TallyVote(g, witness, thresh, it, num_decided, num_all, yes_votes) ==
  LET no_votes  == num_all - yes_votes
      majority  == yes_votes >= no_votes
      num_votes == Max(yes_votes, no_votes)
      vote == IF num_votes <= thresh /\ (it.diff % it.round.freq_coin_rounds) > 0
              THEN CoinBit(g.events[it.voter].signature) = 1
              ELSE majority
      g1 == InsertVote(g, it.voter, witness, vote)
  IN  IF num_votes > thresh
      THEN [graph |-> [g1 EXCEPT !.events[witness].famous = Some(vote)],
            num_decided |-> num_decided + 1]
      ELSE [graph |-> g1, num_decided |-> num_decided]

\* decide_fame, `num_all` and `yes_votes` of the votes collected.
CountVotes(g, witness, thresh, it, num_decided, votes) ==
  TallyVote(g, witness, thresh, it, num_decided, Len(votes),
            Len(SelectSeq(votes, LAMBDA w : g.events[w].votes[witness])))

\* CastVote with the first-round vote always yes, whether or not the voter
\* sees the witness.
CastVote_vote_yes(g, rounds, witness, thresh, it, num_decided) ==
  IF it.diff = 1
  THEN [graph |-> InsertVote(g, it.voter, witness, TRUE),
        num_decided |-> num_decided]
  ELSE CountVotes(g, witness, thresh, it, num_decided,
                  StronglySeenVotes(g, rounds, witness, it))

\* Voter::decide_fame, the body of the inner loop for one (voter, round, diff):
\* the graph and num_decided after it.
CastVote(g, rounds, witness, thresh, it, num_decided) ==
  IF it.diff = 1
  THEN [graph |-> InsertVote(g, it.voter, witness, see(g, it.voter, witness)),
        num_decided |-> num_decided]
  ELSE CountVotes(g, witness, thresh, it, num_decided,
                  StronglySeenVotes(g, rounds, witness, it))

RECURSIVE VoterLoop(_, _, _, _, _, _, _)
\* decide_fame: the inner loop goes on from voter k with the state s that the
\* body left.  The test only makes TLC evaluate s before it goes on.
VoterNext(s, rounds, witness, thresh, its, k, num_decided) ==
  IF s.num_decided < num_decided THEN s
  ELSE VoterLoop(s.graph, rounds, witness, thresh, its, k, s.num_decided)

\* decide_fame: the loop over WitnessIter for one witness, from voter k on.
VoterLoop(g, rounds, witness, thresh, its, k, num_decided) ==
  IF k > Len(its) THEN [graph |-> g, num_decided |-> num_decided]
  ELSE VoterNext(CastVote(g, rounds, witness, thresh, its[k], num_decided),
                 rounds, witness, thresh, its, k + 1, num_decided)

RECURSIVE WitnessLoop(_, _, _, _, _)
\* decide_fame: the outer loop goes on from witness k with the state s that
\* the inner loop left.  The test only makes TLC evaluate s before it goes on.
WitnessNext(s, rounds, i, k, num_decided) ==
  IF s.num_decided < num_decided THEN s
  ELSE WitnessLoop(s.graph, rounds, i, k, s.num_decided)

\* decide_fame: the loop over the witnesses of rounds[i], from witness k on.
\* i is the 1-based index of the round.
WitnessLoop(g, rounds, i, k, num_decided) ==
  IF k > Len(rounds[i].witnesses) THEN [graph |-> g, num_decided |-> num_decided]
  ELSE IF IsSome(g.events[rounds[i].witnesses[k]].famous)
    THEN WitnessLoop(g, rounds, i, k + 1, num_decided + 1)
  ELSE WitnessNext(VoterLoop(g, rounds, rounds[i].witnesses[k], threshold(rounds[i]),
                             WitnessIter(SubSeq(rounds, i, Len(rounds)), 1, <<>>),
                             1, num_decided),
                   rounds, i, k + 1, num_decided)

\* decide_fame: the value returned, num_decided >= round.authors().len().
FameDecided(s, authors) ==
  [graph |-> s.graph, decided |-> s.num_decided >= Len(authors)]

\* Voter::decide_fame(i): [graph, decided], decided being the value returned.
decide_fame(v, i) ==
  FameDecided(WitnessLoop(v.graph, v.rounds, i, 1, 0), v.rounds[i].authors)

\* Round::decide_round
decide_round(r, g) ==
  LET num_witnesses(a) ==
        Len(SelectSeq(r.witnesses, LAMBDA w : g.events[w].author = a))
  IN  [r EXCEPT !.decided = TRUE,
                !.unique_famous_witnesses =
                   @ \o SelectSeq(r.witnesses,
                          LAMBDA w : ~(num_witnesses(g.events[w].author) > 1))]

RECURSIVE SeqOfSet(_)
\* The elements of a set of hashes as a sequence, latest hash first.
SeqOfSet(S) ==
  IF S = {} THEN <<>> ELSE <<SetMax(S)>> \o SeqOfSet(S \ {SetMax(S)})

\* Graph::shared_ancestors(roots): the events that are an ancestor of every
\* root, each once.
shared_ancestors(g, roots) ==
  SeqOfSet({h \in DOMAIN g.events : \A k \in 1..Len(roots) : ancestor(g, roots[k], h)})

RECURSIVE SortNumbers(_)
\* timestamps.sort()
SortNumbers(s) ==
  IF s = <<>> THEN <<>>
  ELSE LET m == SetMin(Range(s))
           k == SetMin({i \in 1..Len(s) : s[i] = m})
       IN  <<m>> \o SortNumbers(SubSeq(s, 1, k - 1) \o SubSeq(s, k + 1, Len(s)))

\* Where a stable sort puts hash h in the sorted sequence s: after every
\* element that is not greater than it by Ord::cmp.
InsertSorted(g, s, h) ==
  LET gt == {i \in 1..Len(s) : partial_cmp(g.events[s[i]], g.events[h]) = Some("gt")}
      k  == IF gt = {} THEN Len(s) + 1 ELSE SetMin(gt)
  IN  SubSeq(s, 1, k - 1) \o <<h>> \o SubSeq(s, k, Len(s))

RECURSIVE SortEvents(_, _, _)
\* events.sort(): a stable sort by Ord::cmp, from element k of s on.
SortEvents(g, s, k) ==
  IF k = 0 THEN <<>>
  ELSE InsertSorted(g, SortEvents(g, s, k - 1), s[k])

\* process_rounds: the timestamp one unique famous witness contributes for
\* event: the time of the first self-ancestor of the witness that has event
\* as an ancestor while its self-parent has not.  None when find() finds none.
ReceivedTime(g, witness, event) ==
  LET sa  == self_ancestors(g, witness)
      hit == {k \in 1..Len(sa) :
                /\ ancestor(g, sa[k], event)
                /\ LET next_ancestor == g.events[sa[k]].self_hash
                   IN  next_ancestor = None \/ ~ancestor(g, Unwrap(next_ancestor), event)}
  IN  IF hit = {} THEN None ELSE Some(g.events[sa[SetMin(hit)]].time)

RECURSIVE Whitener(_, _, _)
\* process_rounds: the xor of the signatures of roots[k..].
Whitener(g, roots, k) ==
  IF k > Len(roots) THEN 0
  ELSE Xor(g.events[roots[k]].signature, Whitener(g, roots, k + 1))

\* process_rounds: round_received, time_received (the median timestamp) and
\* whitened_signature are set on event h.
SetReceived(g, h, round_num, timestamps, whitened_signature) ==
  [g EXCEPT !.events[h].round_received = Some(round_num),
            !.events[h].time_received = Some(timestamps[(Len(timestamps) \div 2) + 1]),
            !.events[h].whitened_signature = Some(whitened_signature)]

RECURSIVE ReceiveLoop(_, _, _, _, _, _)
\* process_rounds: hash k of the round, given what find() found for each
\* unique famous witness: unwrap() panics on a None.
Receive(g, r, hashes, k, whitener, commit, found) ==
  IF \E n \in 1..Len(found) : found[n] = None
  THEN [graph |-> g, commit |-> commit, panic |-> TRUE]
  ELSE ReceiveLoop(SetReceived(g, hashes[k], r.round,
                               SortNumbers([n \in 1..Len(found) |-> Unwrap(found[n])]),
                               Xor(whitener, g.events[hashes[k]].signature)),
                   r, hashes, k + 1, whitener, Append(commit, hashes[k]))

\* process_rounds: the loop over the hashes received in round r, from hash k
\* on: [graph, commit, panic].
ReceiveLoop(g, r, hashes, k, whitener, commit) ==
  IF k > Len(hashes) THEN [graph |-> g, commit |-> commit, panic |-> FALSE]
  ELSE Receive(g, r, hashes, k, whitener, commit,
               [n \in 1..Len(r.unique_famous_witnesses) |->
                  ReceivedTime(g, r.unique_famous_witnesses[n], hashes[k])])

RECURSIVE RoundLoop(_, _, _)
\* process_rounds: after the events of round i were received, the loop goes
\* on with the next round unless a timestamp was missing.
AfterReceive(rounds, i, got) ==
  IF got.panic
  THEN [voter |-> [graph |-> got.graph, rounds |-> rounds],
        commit |-> got.commit, panic |-> TRUE]
  ELSE RoundLoop([graph |-> got.graph, rounds |-> rounds], i + 1, got.commit)

\* AfterDecide without the filter on round_received: every shared ancestor
\* of the unique famous witnesses is received.
AfterDecide_all(g, rounds, i, commit) ==
  LET roots == rounds[i].unique_famous_witnesses
  IN  IF roots = <<>>
      THEN [voter |-> [graph |-> g, rounds |-> rounds], commit |-> commit, panic |-> TRUE]
      ELSE AfterReceive(rounds, i,
             ReceiveLoop(g, rounds[i], shared_ancestors(g, roots),
                         1, Whitener(g, roots, 1), commit))

\* process_rounds: after decide_round for round i: the shared ancestors of
\* the unique famous witnesses that have no round_received are received.
AfterDecide(g, rounds, i, commit) ==
  LET roots == rounds[i].unique_famous_witnesses
  IN  IF roots = <<>>
      THEN \* roots[0] is out of bounds
           [voter |-> [graph |-> g, rounds |-> rounds], commit |-> commit, panic |-> TRUE]
      ELSE AfterReceive(rounds, i,
             ReceiveLoop(g, rounds[i],
                         SelectSeq(shared_ancestors(g, roots),
                                   LAMBDA h : g.events[h].round_received = None),
                         1, Whitener(g, roots, 1), commit))

\* process_rounds: after decide_fame(i): the loop breaks when it returned
\* false, else the round is decided.
AfterFame(v, i, commit, fame) ==
  IF ~fame.decided
  THEN [voter |-> [v EXCEPT !.graph = fame.graph], commit |-> commit, panic |-> FALSE]
  ELSE AfterDecide(fame.graph,
                   [v.rounds EXCEPT ![i] = decide_round(v.rounds[i], fame.graph)],
                   i, commit)

\* process_rounds: the loop over the rounds, from round index i (1-based) on:
\* [voter, commit, panic], commit not yet sorted.
RoundLoop(v, i, commit) ==
  IF i > Len(v.rounds) THEN [voter |-> v, commit |-> commit, panic |-> FALSE]
  ELSE IF v.rounds[i].decided THEN RoundLoop(v, i + 1, commit)
  ELSE AfterFame(v, i, commit, decide_fame(v, i))

\* process_rounds without events.sort(): the hashes as the loop collected them.
SortCommit_unsorted(done) ==
  IF done.panic THEN [voter |-> done.voter, commit |-> <<>>, panic |-> TRUE]
  ELSE [voter |-> done.voter, commit |-> done.commit, panic |-> FALSE]

\* process_rounds: events.sort() on what the loop collected.
SortCommit(done) ==
  IF done.panic THEN [voter |-> done.voter, commit |-> <<>>, panic |-> TRUE]
  ELSE [voter |-> done.voter,
        commit |-> SortEvents(done.voter.graph, done.commit, Len(done.commit)),
        panic |-> FALSE]

\* Voter::process_rounds: [voter, commit, panic], commit being the hashes
\* returned.
process_rounds(v) == SortCommit(RoundLoop(v, 1, <<>>))

(***************************************************************************)
(* The node (lib.rs).  A HashGraph is a record                             *)
(* [identity, voter, self_hash, other_hash, log]: log holds the hashes the *)
(* node committed to its state, in order.                                  *)
(***************************************************************************)
\* HashGraph::open
NewHashGraph(id) ==
  [identity |-> id, voter |-> NewVoter, self_hash |-> None, other_hash |-> None,
   log |-> <<>>]

\* The RawEvent a stored event was made from: Event::raw.
RawOf(g, h) ==
  [author |-> g.events[h].author, self_hash |-> g.events[h].self_hash,
   other_hash |-> g.events[h].other_hash, time |-> g.events[h].time,
   signature |-> g.events[h].signature, hash |-> h, valid |-> TRUE]

\* HashGraph::outbound_sync: the raw events Voter::sync yields for the state
\* of a peer.
outbound_sync(hg, block, seq) ==
  [ok |-> VoterSync(hg.voter, block, seq).ok,
   stream |-> [i \in 1..Len(VoterSync(hg.voter, block, seq).stream) |->
                 RawOf(hg.voter.graph, VoterSync(hg.voter, block, seq).stream[i])]]

RECURSIVE ImportLoop(_, _, _, _)
\* inbound_sync, the import loop after voter.add_event returned r for the
\* event k: an error ends inbound_sync; else other_hash follows the events
\* of the other authors.
ImportNext(hg, events, k, start_round, r) ==
  IF ~r.ok
  THEN [ok |-> FALSE, panic |-> r.panic, hg |-> [hg EXCEPT !.voter = r.voter]]
  ELSE ImportLoop([hg EXCEPT !.voter = r.voter,
                             !.other_hash = IF events[k].author # hg.identity
                                            THEN Some(r.hash) ELSE @],
                  events, k + 1, start_round)

\* inbound_sync: for event in events { self.voter.add_event(event, ..)?; .. }
ImportLoop(hg, events, k, start_round) ==
  IF k > Len(events) THEN [ok |-> TRUE, panic |-> FALSE, hg |-> hg]
  ELSE ImportNext(hg, events, k, start_round,
                  VoterAddEvent(hg.voter, events[k], start_round))

\* inbound_sync: the sync event the node signs.
SyncEvent(hg, hash, signature, time) ==
  [author |-> hg.identity, self_hash |-> hg.self_hash, other_hash |-> hg.other_hash,
   time |-> time, signature |-> signature, hash |-> hash, valid |-> TRUE]

\* inbound_sync: process_rounds returned r; each hash of the commit is
\* applied to the state of the node.
AfterProcess(hg, hash, r) ==
  [ok |-> ~r.panic, panic |-> r.panic, created |-> TRUE, processed |-> TRUE,
   hash |-> hash,
   hg |-> [hg EXCEPT !.voter = r.voter, !.log = @ \o r.commit]]

\* inbound_sync after voter.add_event returned r for the sync event.
AfterCreate(hg, hash, r) ==
  IF ~r.ok
  THEN [ok |-> FALSE, panic |-> r.panic, created |-> FALSE, processed |-> FALSE,
        hash |-> hash, hg |-> [hg EXCEPT !.voter = r.voter]]
  ELSE AfterProcess(hg, hash, process_rounds(r.voter))

\* inbound_sync after the import loop returned imp: the sync event is signed,
\* self_hash is set to its hash, and the event is added.
AfterImport(imp, raw, start_round) ==
  IF ~imp.ok
  THEN [ok |-> FALSE, panic |-> imp.panic, created |-> FALSE, processed |-> FALSE,
        hash |-> raw.hash, hg |-> imp.hg]
  ELSE AfterCreate([imp.hg EXCEPT !.self_hash = Some(raw.hash)], raw.hash,
                   VoterAddEvent(imp.hg.voter, raw, start_round))

\* HashGraph::inbound_sync.  hash, signature and time are those of the sync
\* event the node creates.  The result is [ok, panic, created, processed,
\* hash, hg]: created and processed tell whether the sync event was added
\* and whether process_rounds ran.
inbound_sync(hg, events, hash, signature, time, start_round) ==
  AfterImport(ImportLoop(hg, events, 1, start_round),
              SyncEvent(ImportLoop(hg, events, 1, start_round).hg, hash, signature, time),
              start_round)

(***************************************************************************)
(* The author chain (state/chain.rs).  An author is a number, a hash is    *)
(* the sequence of the author lists of the blocks up to the hashed one, a  *)
(* signature is a record [signer, hash]: it verifies for the author who    *)
(* signed and the hash it was made over.  The tree maps a key              *)
(* [lookup, hash] to the bytes stored under it.                            *)
(***************************************************************************)
\* hash::GENESIS_HASH
GENESIS_HASH == <<>>

RECURSIVE canonicalize_authors(_)
\* canonicalize_authors: the authors of the set, sorted.
canonicalize_authors(set) ==
  IF set = {} THEN <<>>
  ELSE <<SetMin(set)>> \o canonicalize_authors(set \ {SetMin(set)})

\* lookup(hash), the key "lookup::" + hash
lookup(hash) == [lookup |-> TRUE, hash |-> hash]

\* The key &*hash of a block.
BlockKey(hash) == [lookup |-> FALSE, hash |-> hash]

\* sled::Tree::insert
TreeInsert(tree, key, value) ==
  [k \in (DOMAIN tree) \cup {key} |-> IF k = key THEN value ELSE tree[k]]

\* Block::new
NewBlock(parent, authors) == [parent |-> parent, authors |-> authors]

\* Block::hash
BlockHash(block) == Append(block.parent, block.authors)

\* Identity::sign
Sign(id, hash) == [signer |-> id, hash |-> hash]

\* Author::verify(..).is_ok()
Verify(author, hash, sig) == sig.signer = author /\ sig.hash = hash

\* SignedBlock::serialize
Serialize(sb) == sb

\* SignedBlock::validate_and_apply, `signees`: the authors of the set for
\* whom a signature of the block verifies.
Signees(sb, authors) ==
  {a \in authors :
     \E k \in 1..Len(sb.signatures) : Verify(a, BlockHash(sb.block), sb.signatures[k])}

\* SignedBlock::validate_and_apply, the loop over block.authors: each one is
\* removed from the set when in it, inserted when not.
ToggleAuthors(authors, listed) ==
  (authors \ Range(listed)) \cup (Range(listed) \ authors)

\* SignedBlock::validate_and_apply: [ok, authors, bytes]
validate_and_apply(sb, authors) ==
  LET thresh == Cardinality(authors) - (Cardinality(authors) * 2) \div 3
  IN  IF Cardinality(Signees(sb, authors)) < thresh
      THEN [ok |-> FALSE, authors |-> authors, bytes |-> Serialize(sb)]
      ELSE [ok |-> TRUE, authors |-> ToggleAuthors(authors, sb.block.authors),
            bytes |-> Serialize(sb)]

\* BlockBuilder::new
NewBlockBuilder(parent) == [parent |-> parent, authors |-> {}]

\* BlockBuilder::genesis
BuilderGenesis(authors) == [parent |-> GENESIS_HASH, authors |-> authors]

\* ProposedBlock::new
NewProposedBlock(block) ==
  [block |-> block, hash |-> BlockHash(block), signees |-> {}, signatures |-> <<>>]

\* BlockBuilder::to_proposed: [builder, proposed]
to_proposed(builder) ==
  LET proposed == NewProposedBlock(NewBlock(builder.parent,
                                            canonicalize_authors(builder.authors)))
  IN  [builder |-> [parent |-> proposed.hash, authors |-> {}], proposed |-> proposed]

\* ProposedBlock::add_sig
add_sig(proposed, author, sig) ==
  IF author \in proposed.signees THEN proposed
  ELSE IF ~Verify(author, proposed.hash, sig) THEN proposed
  ELSE [proposed EXCEPT !.signees = @ \cup {author}, !.signatures = Append(@, sig)]

\* ProposedBlock::into_signed_block: the signed block (the hash is
\* proposed.hash)
into_signed_block(proposed) ==
  [block |-> proposed.block, signatures |-> proposed.signatures]

\* AuthorChain::from_tree on an empty tree
NewAuthorChain ==
  [tree |-> <<>>, authors |-> {}, builder |-> NewBlockBuilder(GENESIS_HASH),
   proposed |-> None, block |-> 0]

RECURSIVE FromTreeLoop(_, _, _, _)
\* AuthorChain::from_tree, the loop: follows the lookup pointers from
\* lookup_hash and applies the blocks they lead to.
FromTreeLoop(tree, lookup_hash, block_id, authors) ==
  IF lookup(lookup_hash) \in DOMAIN tree
  THEN IF BlockKey(tree[lookup(lookup_hash)]) \in DOMAIN tree
       THEN IF validate_and_apply(tree[BlockKey(tree[lookup(lookup_hash)])], authors).ok
            THEN FromTreeLoop(tree, tree[lookup(lookup_hash)], block_id + 1,
                   validate_and_apply(tree[BlockKey(tree[lookup(lookup_hash)])],
                                      authors).authors)
            ELSE [ok |-> FALSE]
       ELSE [ok |-> FALSE]
  ELSE [ok |-> TRUE,
        chain |-> [tree |-> tree, authors |-> authors,
                   builder |-> NewBlockBuilder(lookup_hash),
                   proposed |-> None, block |-> block_id]]

\* AuthorChain::from_tree: [ok, chain]
from_tree(tree) == FromTreeLoop(tree, GENESIS_HASH, 0, {})

\* AuthorChain::genesis_hash: [ok, hash]
genesis_hash(self) ==
  IF lookup(GENESIS_HASH) \in DOMAIN self.tree
  THEN [ok |-> TRUE, hash |-> self.tree[lookup(GENESIS_HASH)]]
  ELSE [ok |-> FALSE]

\* AuthorChain::genesis
genesis(self, genesis_authors) ==
  LET tp == to_proposed(BuilderGenesis(genesis_authors))
  IN  [self EXCEPT
         !.builder = tp.builder,
         !.tree = TreeInsert(TreeInsert(<<>>, BlockKey(tp.proposed.hash),
                                        Serialize(into_signed_block(tp.proposed))),
                             lookup(GENESIS_HASH), tp.proposed.hash),
         !.authors = genesis_authors,
         !.block = 1]

\* AuthorChain::start_round, the body of `if let Some(proposed)`: the chain
\* after self.proposed.take() and the commit of the block when it has enough
\* signatures and validates.
CommitProposed(self, proposed, applied) ==
  LET n == Cardinality(self.authors)
      thresh == n - (n * 2) \div 3
  IN  IF Len(proposed.signatures) >= thresh /\ applied.ok
      THEN [self EXCEPT
              !.proposed = None,
              !.authors = applied.authors,
              !.tree = TreeInsert(TreeInsert(@, BlockKey(proposed.hash), applied.bytes),
                                  lookup(proposed.block.parent), proposed.hash),
              !.block = @ + 1]
      ELSE [self EXCEPT !.proposed = None]

\* AuthorChain::start_round, `if self.builder.len() > 0`
ProposeNext(self) ==
  IF Cardinality(self.builder.authors) > 0
  THEN [self EXCEPT !.builder = to_proposed(self.builder).builder,
                     !.proposed = Some(to_proposed(self.builder).proposed)]
  ELSE self

\* AuthorChain::start_round with validate_and_apply counting any signer.
start_round_any_signer(self) ==
  LET taken == IF IsSome(self.proposed)
               THEN CommitProposed(self, Unwrap(self.proposed),
                      LET sb == into_signed_block(Unwrap(self.proposed))
                          thresh == Cardinality(self.authors)
                                      - (Cardinality(self.authors) * 2) \div 3
                      IN  IF Cardinality({sb.signatures[k].signer :
                                            k \in 1..Len(sb.signatures)}) < thresh
                          THEN [ok |-> FALSE, authors |-> self.authors, bytes |-> sb]
                          ELSE [ok |-> TRUE,
                                authors |-> ToggleAuthors(self.authors, sb.block.authors),
                                bytes |-> sb])
               ELSE self
      next == ProposeNext(taken)
  IN  [chain |-> next, authors |-> canonicalize_authors(next.authors)]

\* AuthorChain::start_round: [chain, authors], authors being the value
\* returned.
start_round(self) ==
  LET taken == IF IsSome(self.proposed)
               THEN CommitProposed(self, Unwrap(self.proposed),
                      validate_and_apply(into_signed_block(Unwrap(self.proposed)),
                                         self.authors))
               ELSE self
      next == ProposeNext(taken)
  IN  [chain |-> next, authors |-> canonicalize_authors(next.authors)]

\* add_author without the test of the block number.
add_author_any_block(self, author, block) ==
  IF author \notin self.authors
  THEN [self EXCEPT !.builder.authors = @ \cup {author}]
  ELSE self

\* AuthorChain::add_author
add_author(self, author, block) ==
  IF self.block # block THEN self
  ELSE IF author \notin self.authors
    THEN [self EXCEPT !.builder.authors = @ \cup {author}]
  ELSE self

\* AuthorChain::rem_author
rem_author(self, author, block) ==
  IF self.block # block THEN self
  ELSE IF author \in self.authors
    THEN [self EXCEPT !.builder.authors = @ \cup {author}]
  ELSE self

\* AuthorChain::sign_block
sign_block(self, author, sig) ==
  IF IsSome(self.proposed)
  THEN [self EXCEPT !.proposed = Some(add_sig(Unwrap(self.proposed), author, sig))]
  ELSE self

(***************************************************************************)
(* The ACL key-value store (state/acl.rs, state/transaction.rs).  Bytes    *)
(* are sequences of numbers.  The tree maps keys to values, both bytes;    *)
(* the owner list of a prefix is stored under the bytes of the prefix, a   *)
(* value under the bytes of its Key.                                       *)
(***************************************************************************)
\* Key::new: the length of the prefix, the prefix, the key.
KeyNew(prefix, key) == <<Len(prefix)>> \o prefix \o key

\* Key::prefix
KeyPrefix(k) == SubSeq(k, 2, k[1] + 1)

\* bincode::serialize of a Vec<Author>: the length, then the authors.
SerializeAuthors(list) == <<Len(list)>> \o list

\* bincode::deserialize to a Vec<Author>: [ok, authors]; fails when the bytes
\* end before the length or before the last author.
DeserializeAuthors(bytes) ==
  IF Len(bytes) >= 1 /\ Len(bytes) - 1 >= bytes[1]
  THEN [ok |-> TRUE, authors |-> SubSeq(bytes, 2, bytes[1] + 1)]
  ELSE [ok |-> FALSE]

\* sled::Tree::remove
TreeRemove(tree, key) == [k \in (DOMAIN tree) \ {key} |-> tree[k]]

\* sled::Tree::get
TreeGet(tree, key) == IF key \in DOMAIN tree THEN Some(tree[key]) ELSE None

\* Acl::add_author_to_prefix, `let mut authors`: [ok, authors]
StoredAuthors(tree, prefix) ==
  IF prefix \in DOMAIN tree THEN DeserializeAuthors(tree[prefix])
  ELSE [ok |-> TRUE, authors |-> <<>>]

\* AddToList without the test of has_permission.
AddToList_any_author(tree, authors, author, prefix, new) ==
  IF authors # <<>> /\ new \in Range(authors)
  THEN [res |-> "ok", tree |-> tree]
  ELSE [res |-> "ok",
        tree |-> TreeInsert(tree, prefix, SerializeAuthors(Append(authors, new)))]

\* Acl::add_author_to_prefix after the list was read: [res, tree].  res is
\* "ok" for Ok(Ok(())), "permission" for Ok(Err(Permission)).
AddToList(tree, authors, author, prefix, new) ==
  IF authors # <<>> /\ author \notin Range(authors)
  THEN [res |-> "permission", tree |-> tree]
  ELSE IF authors # <<>> /\ new \in Range(authors)
    THEN [res |-> "ok", tree |-> tree]
  ELSE [res |-> "ok",
        tree |-> TreeInsert(tree, prefix, SerializeAuthors(Append(authors, new)))]

\* Acl::add_author_to_prefix: [res, tree]; res is "error" for Err(_).
add_author_to_prefix(tree, author, prefix, new) ==
  IF ~StoredAuthors(tree, prefix).ok THEN [res |-> "error", tree |-> tree]
  ELSE AddToList(tree, StoredAuthors(tree, prefix).authors, author, prefix, new)

\* Acl::remove_author_from_prefix after the list was read: [res, tree]
RemoveFromList(tree, authors, author, prefix, rm) ==
  LET new_authors == SelectSeq(authors, LAMBDA a : a # rm)
  IN  IF author \notin Range(authors) THEN [res |-> "permission", tree |-> tree]
      ELSE IF rm \notin Range(authors) THEN [res |-> "ok", tree |-> tree]
      ELSE IF new_authors = <<>> THEN [res |-> "ok", tree |-> TreeRemove(tree, prefix)]
      ELSE [res |-> "ok",
            tree |-> TreeInsert(tree, prefix, SerializeAuthors(new_authors))]

\* Acl::remove_author_from_prefix: [res, tree]
remove_author_from_prefix(tree, author, prefix, rm) ==
  IF ~StoredAuthors(tree, prefix).ok THEN [res |-> "error", tree |-> tree]
  ELSE RemoveFromList(tree, StoredAuthors(tree, prefix).authors, author, prefix, rm)

\* Acl::insert with the result r of add_author_to_prefix: [res, tree]
InsertAfter(r, key, value) ==
  IF r.res = "ok" THEN [res |-> "ok", tree |-> TreeInsert(r.tree, key, value)]
  ELSE r

\* Acl::insert: [res, tree]
insert(tree, author, key, value) ==
  InsertAfter(add_author_to_prefix(tree, author, KeyPrefix(key), author), key, value)

\* Acl::remove with the result r of add_author_to_prefix: [res, tree]
RemoveAfter(r, key) ==
  IF r.res = "ok" THEN [res |-> "ok", tree |-> TreeRemove(r.tree, key)]
  ELSE r

\* Acl::remove: [res, tree]
remove(tree, author, key) ==
  RemoveAfter(add_author_to_prefix(tree, author, KeyPrefix(key), author), key)

\* sled::Tree::compare_and_swap: old and new are Options; [res, tree], res
\* being "cas" for Err(CompareAndSwapError { current, proposed }).
TreeCompareAndSwap(tree, key, old, new) ==
  IF TreeGet(tree, key) # old
  THEN [res |-> "cas", current |-> TreeGet(tree, key), proposed |-> new, tree |-> tree]
  ELSE IF IsSome(new) THEN [res |-> "ok", tree |-> TreeInsert(tree, key, Unwrap(new))]
  ELSE [res |-> "ok", tree |-> TreeRemove(tree, key)]

\* Acl::compare_and_swap with the result r of add_author_to_prefix.
CompareAndSwapAfter(r, key, old, new) ==
  IF r.res = "ok" THEN TreeCompareAndSwap(r.tree, key, old, new)
  ELSE r

\* Acl::compare_and_swap: [res, tree] and, when res is "cas", current and
\* proposed.
compare_and_swap(tree, author, key, old, new) ==
  CompareAndSwapAfter(add_author_to_prefix(tree, author, KeyPrefix(key), author),
                      key, old, new)

(***************************************************************************)
(* The transaction queue (state/queue.rs).  A transaction is its bytes, so *)
(* its hash is the transaction.  subs is the heap of the Subscription      *)
(* objects (Arc<Mutex<Subscription>>); subscriptions maps a hash to the    *)
(* index of one; a future is the index of its subscription.                *)
(***************************************************************************)
\* TransactionQueue::new, with an empty heap.
NewTransactionQueue == [subscriptions |-> <<>>, queue |-> <<>>, subs |-> <<>>]

\* Subscription::default
NewSubscription == [result |-> None, wakers |-> {}]

\* TransactionQueue::create_transaction: [q, future]
create_transaction(q, tx) ==
  IF tx \in DOMAIN q.subscriptions
  THEN [q |-> [q EXCEPT !.queue = Append(@, tx)], future |-> q.subscriptions[tx]]
  ELSE [q |-> [q EXCEPT !.queue = Append(@, tx),
                        !.subs = Append(@, NewSubscription),
                        !.subscriptions = TreeInsert(@, tx, Len(q.subs) + 1)],
        future |-> Len(q.subs) + 1]

\* TransactionQueue::create_payload: [q, payload]
create_payload(q) == [q |-> [q EXCEPT !.queue = <<>>], payload |-> q.queue]

\* Subscription::wake
wake(s, result) == [result |-> Some(result), wakers |-> {}]

\* TransactionQueue::commit
commit(q, tx, result) ==
  IF tx \in DOMAIN q.subscriptions
  THEN [q EXCEPT !.subscriptions = TreeRemove(@, tx),
                 !.subs[q.subscriptions[tx]] = wake(@, result)]
  ELSE q

\* <TransactionFuture as Future>::poll by the task waker: [q, res], res being
\* Some(result) for Poll::Ready(result) and None for Poll::Pending.
poll(q, future, waker) ==
  IF IsSome(q.subs[future].result)
  THEN [q |-> q, res |-> q.subs[future].result]
  ELSE [q |-> [q EXCEPT !.subs[future].wakers = @ \cup {waker}], res |-> None]

(***************************************************************************)
(* Checkpoints (state/mod.rs, state/checkpoint.rs, state/serde.rs,         *)
(* hash.rs).  A file is the sequence of the items written to it: the       *)
(* number of records of a tree as one item, and each length-prefixed byte  *)
(* string (a key or a value) as one item.  The State is                    *)
(* [authors, state, checkpoint, proposed]: the AuthorChain, the tree of    *)
(* the Acl, and the two optional checkpoints.  A directory maps the name   *)
(* of a file to its content.                                               *)
(***************************************************************************)
\* Hasher::sum over the items fed to the hasher: the digest names the
\* content, two contents have the same digest only when they are equal.
HasherSum(bytes) == ToString(bytes)

RECURSIVE TreeIter(_)
\* sled::Tree::iter: the records <<key, value>> of the tree in the order of
\* the keys, which is fixed by the set of keys.
TreeIter(tree) ==
  IF DOMAIN tree = {} THEN <<>>
  ELSE LET k == CHOOSE key \in DOMAIN tree : TRUE
       IN  <<<<k, tree[k]>>>> \o TreeIter(TreeRemove(tree, k))

RECURSIVE WriteEntries(_, _)
\* Exporter::write_tree, the loop: write_bytes(k) then write_bytes(v) for
\* the records from the k-th on.
WriteEntries(entries, k) ==
  IF k > Len(entries) THEN <<>>
  ELSE <<entries[k][1], entries[k][2]>> \o WriteEntries(entries, k + 1)

\* Exporter::write_tree: the items written, write_len(tree.len()) first.
write_tree(tree) ==
  <<Cardinality(DOMAIN tree)>> \o WriteEntries(TreeIter(tree), 1)

RECURSIVE ReadEntries(_, _, _, _)
\* Importer::read_tree, the loop `for _ in 0..len`: [ok, tree, pos], ok
\* FALSE when read_exact reaches the end of the file; pos is the position
\* of the next item to read.
ReadEntries(tree, bytes, pos, len) ==
  IF len = 0 THEN [ok |-> TRUE, tree |-> tree, pos |-> pos]
  ELSE IF pos > Len(bytes) THEN [ok |-> FALSE, tree |-> tree, pos |-> pos]
  ELSE IF pos + 1 > Len(bytes) THEN [ok |-> FALSE, tree |-> tree, pos |-> pos + 1]
  ELSE ReadEntries(TreeInsert(tree, bytes[pos], bytes[pos + 1]), bytes, pos + 2, len - 1)

\* read_tree reading the records without inserting them.
read_tree_no_insert(tree, bytes, pos) ==
  IF pos > Len(bytes) THEN [ok |-> FALSE, tree |-> tree, pos |-> pos]
  ELSE [ReadEntries(tree, bytes, pos + 1, bytes[pos]) EXCEPT !.tree = tree]

\* Importer::read_tree from the position pos of the file: [ok, tree, pos]
read_tree(tree, bytes, pos) ==
  IF pos > Len(bytes) THEN [ok |-> FALSE, tree |-> tree, pos |-> pos]
  ELSE ReadEntries(tree, bytes, pos + 1, bytes[pos])

\* ProposedCheckpoint::new
NewProposedCheckpoint(checkpoint) ==
  [checkpoint |-> checkpoint, signees |-> {}, signatures |-> <<>>]

\* ProposedCheckpoint::add_sig
CheckpointAddSig(proposed, author, sig) ==
  IF author \in proposed.signees THEN proposed
  ELSE IF ~Verify(author, proposed.checkpoint, sig) THEN proposed
  ELSE [proposed EXCEPT !.signees = @ \cup {author}, !.signatures = Append(@, sig)]

\* ProposedCheckpoint::len
CheckpointLen(proposed) == Len(proposed.signatures)

\* ProposedCheckpoint::into_signed_checkpoint
into_signed_checkpoint(proposed) ==
  [checkpoint |-> proposed.checkpoint, signatures |-> proposed.signatures]

\* State::open on an empty database
NewState ==
  [authors |-> NewAuthorChain, state |-> <<>>, checkpoint |-> None, proposed |-> None]

\* State::genesis
StateGenesis(self, genesis_authors) ==
  [self EXCEPT !.authors = genesis(self.authors, genesis_authors)]

\* State::sign_checkpoint
sign_checkpoint(self, author, sig) ==
  IF IsSome(self.proposed)
  THEN LET proposed == CheckpointAddSig(Unwrap(self.proposed), author, sig)
           n == Cardinality(self.authors.authors)
           thresh == n - (n * 2) \div 3
       IN  IF CheckpointLen(proposed) >= thresh
           THEN [self EXCEPT !.proposed = None,
                             !.checkpoint = Some(into_signed_checkpoint(proposed))]
           ELSE [self EXCEPT !.proposed = Some(proposed)]
  ELSE self

\* State::commit: [res, state].  op is [kind, ...] with the fields of the
\* Transaction of that kind.
StateCommit(self, author, op) ==
  CASE op.kind = "AddAuthor" ->
         [res |-> "ok",
          state |-> [self EXCEPT !.authors = add_author(@, op.author, op.block)]]
    [] op.kind = "RemAuthor" ->
         [res |-> "ok",
          state |-> [self EXCEPT !.authors = rem_author(@, op.author, op.block)]]
    [] op.kind = "SignBlock" ->
         [res |-> "ok",
          state |-> [self EXCEPT !.authors = sign_block(@, author, op.signature)]]
    [] op.kind = "Insert" ->
         LET r == insert(self.state, author, op.key, op.value)
         IN  [res |-> r.res, state |-> [self EXCEPT !.state = r.tree]]
    [] op.kind = "Remove" ->
         LET r == remove(self.state, author, op.key)
         IN  [res |-> r.res, state |-> [self EXCEPT !.state = r.tree]]
    [] op.kind = "CompareAndSwap" ->
         LET r == compare_and_swap(self.state, author, op.key, op.old, op.new)
         IN  [res |-> r.res, state |-> [self EXCEPT !.state = r.tree]]
    [] op.kind = "SignCheckpoint" ->
         [res |-> "ok", state |-> sign_checkpoint(self, author, op.signature)]

\* State::start_round
StateStartRound(self) ==
  [self EXCEPT !.authors = start_round(self.authors).chain]

\* State::export_checkpoint: [state, dir, checkpoint].  The file is written
\* under a temporary name and renamed to its digest.
export_checkpoint(self, dir) ==
  LET bytes == write_tree(self.authors.tree) \o write_tree(self.state)
      checkpoint == HasherSum(bytes)
  IN  [state |-> [self EXCEPT !.proposed = Some(NewProposedCheckpoint(checkpoint))],
       dir |-> [name \in (DOMAIN dir) \cup {checkpoint} |->
                  IF name = checkpoint THEN bytes ELSE dir[name]],
       checkpoint |-> checkpoint]

\* State::import_checkpoint, the check of the signatures: the authors of
\* the imported committee for whom one of the signatures verifies.
CheckpointSignees(checkpoint, authors) ==
  {a \in authors :
     \E k \in 1..Len(checkpoint.signatures) :
        Verify(a, checkpoint.checkpoint, checkpoint.signatures[k])}

\* State::import_checkpoint from the comparison of the genesis hashes on;
\* the trees hold what was read from the file, prior is what genesis_hash
\* returned before the trees were cleared.
ImportValidate(self, prior, checkpoint) ==
  LET new_authors == from_tree(self.authors.tree)
  IN  IF ~new_authors.ok THEN [res |-> "error", state |-> self]
      ELSE IF prior.ok /\ ~genesis_hash(new_authors.chain).ok
        THEN [res |-> "error", state |-> self]
      ELSE IF prior.ok /\ prior.hash # genesis_hash(new_authors.chain).hash
        THEN [res |-> "InvalidCheckpoint", state |-> self]
      ELSE LET n == Cardinality(new_authors.chain.authors)
               thresh == n - (n * 2) \div 3
           IN  IF Cardinality(CheckpointSignees(checkpoint, new_authors.chain.authors))
                    < thresh
               THEN [res |-> "InvalidCheckpoint", state |-> self]
               ELSE [res |-> "ok",
                     state |-> [self EXCEPT !.authors = new_authors.chain,
                                            !.checkpoint = Some(checkpoint)]]

\* State::import_checkpoint, the two read_tree calls into the cleared
\* trees and the comparison of the digest of what was read:
\* [res, state, read], read being the number of items read.
ImportRead(self, prior, bytes, checkpoint, authors_read) ==
  IF ~authors_read.ok
  THEN [res |-> "io", read |-> Len(bytes),
        state |-> [self EXCEPT !.authors.tree = authors_read.tree, !.state = <<>>]]
  ELSE LET state_read == read_tree(<<>>, bytes, authors_read.pos)
           filled == [self EXCEPT !.authors.tree = authors_read.tree,
                                  !.state = state_read.tree]
       IN  IF ~state_read.ok
           THEN [res |-> "io", read |-> Len(bytes), state |-> filled]
           ELSE IF HasherSum(SubSeq(bytes, 1, state_read.pos - 1)) # checkpoint.checkpoint
             THEN [res |-> "InvalidCheckpoint", read |-> state_read.pos - 1,
                   state |-> [self EXCEPT !.authors.tree = <<>>, !.state = <<>>]]
           ELSE [res |-> ImportValidate(filled, prior, checkpoint).res,
                 read |-> state_read.pos - 1,
                 state |-> ImportValidate(filled, prior, checkpoint).state]

\* State::import_checkpoint: [res, state, read].  res is "ok",
\* "InvalidCheckpoint", "io" (the file cannot be opened or ends early) or
\* "error" (the author chain cannot be read from the tree).
import_checkpoint(self, dir, checkpoint) ==
  IF checkpoint.checkpoint \notin DOMAIN dir
  THEN [res |-> "io", read |-> 0,
        state |-> [self EXCEPT !.authors.tree = <<>>, !.state = <<>>]]
  ELSE ImportRead(self, genesis_hash(self.authors), dir[checkpoint.checkpoint],
                  checkpoint, read_tree(<<>>, dir[checkpoint.checkpoint], 1))

(***************************************************************************)
(* The state machine.  voter is the Voter of a node, log the concatenation *)
(* of the hash lists its process_rounds calls returned, panicked whether a *)
(* call panicked, stale whether an event was added since the last call of  *)
(* process_rounds.  voter2, log2, panicked2, stale2 are those of a second  *)
(* node.  last is the last call made on the graph of the first node and    *)
(* what it returned, where a specification records it.  nodes are the      *)
(* HashGraph structs of the four nodes of a network, where a specification *)
(* runs one; there last is the last inbound_sync call and its result.      *)
(***************************************************************************)
\* The hash of the next event created: events are numbered as they are made.
NextHash(g) == Cardinality(DOMAIN g.events) + 1

\* The signature of the event with this hash: distinct events have distinct
\* signatures, and the coin bit alternates.
SignatureOf(hash) == hash

\* The time the author of the event with this hash claims.
TimeOf(hash) == hash % (MaxTime + 1)

\* The latest stored event of an author, if any.
LastOf(g, a) ==
  LET own == {h \in DOMAIN g.events : g.events[h].author = a}
  IN  IF own = {} THEN None ELSE Some(SetMax(own))

\* The latest stored event of another author than a, if any.
LastOther(g, a) ==
  LET other == {h \in DOMAIN g.events : g.events[h].author # a}
  IN  IF other = {} THEN None ELSE Some(SetMax(other))

\* The raw events the authors in creators may create next: the other-parent is
\* the latest event of another author, as HashGraph::inbound_sync sets
\* other_hash; the self-parent is the author's last event or, for an author
\* in forkers, absent (a second first event: a fork).
RawEvents(g, creators, forkers) ==
  { [author |-> c[1], self_hash |-> c[2], other_hash |-> LastOther(g, c[1]),
     time |-> TimeOf(NextHash(g)), signature |-> SignatureOf(NextHash(g)),
     hash |-> NextHash(g), valid |-> TRUE] :
    c \in UNION { { <<a, LastOf(g, a)>> } \cup (IF a \in forkers THEN { <<a, None>> } ELSE {}) :
                  a \in creators } }

\* What the start_round callback returns: the committee of the author chain.
StartRound(committee) == [ok |-> TRUE, block |-> 1, authors |-> committee]

\* Both nodes start with Voter::new().
Init ==
  /\ voter = NewVoter
  /\ log = <<>>
  /\ panicked = FALSE
  /\ stale = FALSE
  /\ voter2 = NewVoter
  /\ log2 = <<>>
  /\ panicked2 = FALSE
  /\ stale2 = FALSE
  /\ last = [op |-> "new"]
  /\ nodes = [n \in 1..4 |-> NewHashGraph(n)]
  /\ chain = NewAuthorChain
  /\ acl = <<>>
  /\ txq = [q |-> NewTransactionQueue, futures |-> <<>>, flight |-> <<>>,
            done |-> <<>>, foreign |-> 0]
  /\ machine = NewState
  /\ files = <<>>

\* The first node is handed the event raw: Voter::add_event.
AddRaw(raw, committee) ==
  /\ ~panicked
  /\ \E r \in {VoterAddEvent(voter, raw, StartRound(committee))} :
       /\ voter' = r.voter
       /\ panicked' = r.panic
  /\ stale' = TRUE
  /\ UNCHANGED <<log, voter2, log2, panicked2, stale2, last, nodes, chain, acl, txq, machine, files>>

\* Voter::process_rounds on the first node.
ProcessRounds ==
  /\ ~panicked
  /\ \E r \in {process_rounds(voter)} :
       /\ voter' = r.voter
       /\ log' = log \o r.commit
       /\ panicked' = r.panic
  /\ stale' = FALSE
  /\ UNCHANGED <<voter2, log2, panicked2, stale2, last, nodes, chain, acl, txq, machine, files>>

\* Voter::process_rounds on the second node.
ProcessRounds2 ==
  /\ ~panicked2
  /\ \E r \in {process_rounds(voter2)} :
       /\ voter2' = r.voter
       /\ log2' = log2 \o r.commit
       /\ panicked2' = r.panic
  /\ stale2' = FALSE
  /\ UNCHANGED <<voter, log, panicked, stale, last, nodes, chain, acl, txq, machine, files>>

(***************************************************************************)
(* Spec: a committee of two authors who may both fork; one node.           *)
(***************************************************************************)
Committee == <<1, 2>>
Creators == {1, 2}
Forkers == {1, 2}

\* An author creates an event and the node adds it.
AddEvent ==
  /\ NextHash(voter.graph) <= MaxEvents
  /\ \E raw \in RawEvents(voter.graph, Creators, Forkers) : AddRaw(raw, Committee)

Next == AddEvent \/ ProcessRounds

Spec == Init /\ [][Next]_vars

(***************************************************************************)
(* SpecSilent: a committee of four authors of which the fourth never       *)
(* creates an event; the other three create fork-free events, each on a    *)
(* sync from the author of the latest event; one node.                     *)
(***************************************************************************)
Committee4 == <<1, 2, 3, 4>>
SilentCreators == {1, 2, 3}

\* One of the three active authors creates an event and the node adds it.
AddSilent ==
  /\ NextHash(voter.graph) <= MaxSilentEvents
  /\ \E raw \in RawEvents(voter.graph, SilentCreators, {}) :
       /\ \/ voter.graph.events = << >>
          \/ IsSome(raw.other_hash) /\ Unwrap(raw.other_hash) = NextHash(voter.graph) - 1
       /\ AddRaw(raw, Committee4)

NextSilent == AddSilent \/ ProcessRounds

SpecSilent == Init /\ [][NextSilent]_vars

(***************************************************************************)
(* SpecTwo: the authors of SpecSilent and two nodes.  Both nodes are       *)
(* handed every event, in the order of creation; the first calls           *)
(* process_rounds when it likes, the second when the last event is in.     *)
(***************************************************************************)
\* One of the three active authors creates an event and both nodes add it.
AddBoth ==
  /\ NextHash(voter.graph) <= MaxTwoEvents
  /\ ~panicked /\ ~panicked2
  /\ \E raw \in RawEvents(voter.graph, SilentCreators, {}) :
       /\ \/ voter.graph.events = << >>
          \/ IsSome(raw.other_hash) /\ Unwrap(raw.other_hash) = NextHash(voter.graph) - 1
       /\ \E r \in {VoterAddEvent(voter, raw, StartRound(Committee4))} :
            /\ voter' = r.voter
            /\ panicked' = r.panic
       /\ \E r \in {VoterAddEvent(voter2, raw, StartRound(Committee4))} :
            /\ voter2' = r.voter
            /\ panicked2' = r.panic
  /\ stale' = TRUE
  /\ stale2' = TRUE
  /\ UNCHANGED <<log, log2, last, nodes, chain, acl, txq, machine, files>>

\* The second node calls process_rounds with all the events of the run in.
ProcessLate ==
  /\ NextHash(voter2.graph) > MaxTwoEvents
  /\ ProcessRounds2

NextTwo == AddBoth \/ ProcessRounds \/ ProcessLate

SpecTwo == Init /\ [][NextTwo]_vars

(***************************************************************************)
(* SpecLong: a committee of four authors who all create fork-free events;  *)
(* the events of the run are those of LongPool, each on a sync from        *)
(* another author; one node is handed them in the order of creation and    *)
(* calls process_rounds when it likes.                                     *)
(***************************************************************************)
\* The raw event with hash k of the pool.
PoolEvent(k, a, sp, op, sig) ==
  [author |-> a, self_hash |-> sp, other_hash |-> op,
   time |-> TimeOf(k), signature |-> sig, hash |-> k, valid |-> TRUE]

\* The events of SpecLong: the other-parent of each is the event that was the
\* last of another author when it was created.
LongPool ==
  << PoolEvent(1, 1, None, None, 2),
     PoolEvent(2, 4, None, Some(1), 4),
     PoolEvent(3, 2, None, Some(2), 7),
     PoolEvent(4, 4, Some(2), Some(3), 9),
     PoolEvent(5, 3, None, Some(3), 11),
     PoolEvent(6, 1, Some(1), Some(4), 12),
     PoolEvent(7, 3, Some(5), Some(4), 14),
     PoolEvent(8, 4, Some(4), Some(3), 16),
     PoolEvent(9, 2, Some(3), Some(6), 19),
     PoolEvent(10, 4, Some(8), Some(6), 20),
     PoolEvent(11, 3, Some(7), Some(6), 22),
     PoolEvent(12, 4, Some(10), Some(11), 24),
     PoolEvent(13, 1, Some(6), Some(12), 26),
     PoolEvent(14, 4, Some(12), Some(11), 29),
     PoolEvent(15, 3, Some(11), Some(9), 31),
     PoolEvent(16, 2, Some(9), Some(15), 32),
     PoolEvent(17, 4, Some(14), Some(16), 35),
     PoolEvent(18, 3, Some(15), Some(17), 37),
     PoolEvent(19, 2, Some(16), Some(17), 39),
     PoolEvent(20, 3, Some(18), Some(19), 40),
     PoolEvent(21, 1, Some(13), Some(20), 42),
     PoolEvent(22, 4, Some(17), Some(20), 44),
     PoolEvent(23, 2, Some(19), Some(21), 46) >>

\* The events of the pool a voter can be handed next: those it does not hold
\* and whose parents it holds.
Addable(v) ==
  {k \in 1..Len(LongPool) :
     /\ k \notin DOMAIN v.graph.events
     /\ LongPool[k].self_hash \cup LongPool[k].other_hash \subseteq DOMAIN v.graph.events}

\* The node is handed the next event of the pool.
AddNext ==
  /\ NextHash(voter.graph) \in Addable(voter)
  /\ AddRaw(LongPool[NextHash(voter.graph)], Committee4)

NextLong == AddNext \/ ProcessRounds

SpecLong == Init /\ [][NextLong]_vars

(***************************************************************************)
(* SpecGraph: the graph of one node under every input.  The authors of     *)
(* Spec create events; the node is also handed events it must reject (an   *)
(* unknown self-parent, an unknown other-parent, a signature that does not *)
(* verify), and peers ask it for the events after their sync state.        *)
(***************************************************************************)
\* The events a node must reject: an event the authors may create next, with
\* one of its parents replaced by a hash the graph does not hold, or with a
\* signature that does not verify.
BadRawEvents(g) ==
  UNION { { [raw EXCEPT !.self_hash = Some(NextHash(g) + 1)],
            [raw EXCEPT !.other_hash = Some(NextHash(g) + 1)],
            [raw EXCEPT !.valid = FALSE] } :
          raw \in RawEvents(g, Creators, Forkers) }

\* The seqs a peer may report for the two authors: none, or 0..MaxPeerSeq.
PeerSeqs ==
  [1..Len(Committee) -> {None} \cup {Some(k) : k \in 0..MaxPeerSeq}]

\* The node is handed an event, good or bad: Voter::add_event.
GraphAdd ==
  /\ NextHash(voter.graph) <= MaxGraphEvents
  /\ \E raw \in RawEvents(voter.graph, Creators, Forkers) \cup BadRawEvents(voter.graph) :
       \E r \in {VoterAddEvent(voter, raw, StartRound(Committee))} :
         /\ voter' = r.voter
         /\ last' = [op |-> "add_event", ok |-> r.ok, raw |-> raw]
  /\ UNCHANGED <<log, panicked, stale, voter2, log2, panicked2, stale2, nodes, chain, acl, txq, machine, files>>

\* A peer asks for the events after its sync state: Voter::sync.
GraphSync ==
  /\ \E seq \in PeerSeqs :
       \E r \in {VoterSync(voter, 1, seq)} :
         last' = [op |-> "sync", ok |-> r.ok, seq |-> seq, stream |-> r.stream]
  /\ UNCHANGED <<voter, log, panicked, stale, voter2, log2, panicked2, stale2, nodes, chain, acl, txq, machine, files>>

NextGraph == GraphAdd \/ GraphSync

SpecGraph == Init /\ [][NextGraph]_vars

(***************************************************************************)
(* Networks of nodes.  The hash of an event is the number of its creation  *)
(* in the network, its time is TimeOf(hash), its signature 2 * hash + b    *)
(* where b is the coin bit.  The coin bit is read for a witness that votes *)
(* in the second or a later round of an election (vote.rs:249-252), which  *)
(* is a witness of round 3 or later: for such an event both bits are       *)
(* possible, for the others the bit is 0.                                  *)
(***************************************************************************)
\* The hash of the next event created in the network.
NextHashAll ==
  1 + SetMax({0} \cup UNION {DOMAIN nodes[n].voter.graph.events \cup nodes[n].self_hash :
                              n \in DOMAIN nodes})

\* The sync event of hg would be a witness of round 3 or later.
CoinRead(hg, hash, start, r) ==
  /\ r.ok
  /\ r.voter.graph.events[hash].witness = Some(TRUE)
  /\ Unwrap(r.voter.graph.events[hash].round_created) >= 3

\* The signatures the sync event of hg may get.
Signatures(hg, hash, start) ==
  {2 * hash + b :
     b \in IF CoinRead(hg, hash, start,
                       VoterAddEvent(hg.voter, SyncEvent(hg, hash, 2 * hash, TimeOf(hash)),
                                     start))
           THEN {0, 1} ELSE {0}}

\* The stream node n gets when it syncs from node m: what m returns for the
\* sync state of n; nothing when n syncs from nobody (m = n).
PullStream(n, m) ==
  IF m = n THEN <<>>
  ELSE outbound_sync(nodes[m], VoterSyncState(nodes[n].voter).block,
                     VoterSyncState(nodes[n].voter).seq).stream

\* Node n can sync from node m: both have a round (sync_state and
\* outbound_sync are unwrapped by the caller).
CanPull(n, m) ==
  m # n => nodes[n].voter.rounds # <<>> /\ nodes[m].voter.rounds # <<>>

(***************************************************************************)
(* SpecInbound: the nodes 1 and 2 of a committee of two sync from each     *)
(* other or create an event on their own; the stream may carry, at any     *)
(* place, an event whose self-parent no graph holds.                       *)
(***************************************************************************)
\* An event by author a that declares a self-parent no graph holds: hashes
\* start at 1.
BadEvent(a) ==
  [author |-> a, self_hash |-> Some(0), other_hash |-> None, time |-> 0,
   signature |-> 0, hash |-> 0, valid |-> TRUE]

\* The stream with the bad event at place at (0: not at all).
WithBad(stream, at, a) ==
  IF at = 0 THEN stream
  ELSE SubSeq(stream, 1, at - 1) \o <<BadEvent(a)>> \o SubSeq(stream, at, Len(stream))

\* Node n calls inbound_sync with the stream events.
Inbound(n, events, committee) ==
  \E sig \in Signatures(ImportLoop(nodes[n], events, 1, StartRound(committee)).hg,
                        NextHashAll, StartRound(committee)) :
    \E r \in {inbound_sync(nodes[n], events, NextHashAll, sig, TimeOf(NextHashAll),
                           StartRound(committee))} :
      /\ nodes' = [nodes EXCEPT ![n] = r.hg]
      /\ last' = [op |-> "inbound_sync", node |-> n, events |-> events, ok |-> r.ok,
                  panic |-> r.panic, created |-> r.created, processed |-> r.processed]

\* Node n syncs from node m (from nobody when m = n).
Pull ==
  /\ NextHashAll <= MaxInboundEvents
  /\ last.op = "inbound_sync" => ~last.panic
  /\ \E n \in {1, 2} : \E m \in {1, 2} :
       /\ CanPull(n, m)
       /\ \E at \in 0..(Len(PullStream(n, m)) + 1) :
            Inbound(n, WithBad(PullStream(n, m), at, m), Committee)
  /\ UNCHANGED <<voter, log, panicked, stale, voter2, log2, panicked2, stale2, chain, acl, txq, machine, files>>

NextInbound == Pull

SpecInbound == Init /\ [][NextInbound]_vars

(***************************************************************************)
(* SpecConsensus: the four nodes A, B, C, D (1..4) of tests::consensus.    *)
(* Each creates its first event, then the nodes sync in the order of the   *)
(* test; every call creates one event, so the next hash is the step.       *)
(***************************************************************************)
\* <<n, m>>: node n syncs from node m (from nobody when m = n).
ConsensusSchedule ==
  << <<1, 1>>, <<2, 2>>, <<3, 3>>, <<4, 4>>,
     <<4, 2>>, <<2, 4>>, <<4, 2>>, <<1, 2>>, <<2, 3>>, <<4, 2>>,
     <<3, 2>>, <<2, 4>>, <<4, 1>>, <<1, 4>>, <<2, 4>>, <<1, 3>>,
     <<1, 2>>, <<3, 1>>, <<4, 2>>, <<4, 1>>, <<2, 1>>, <<2, 4>>,
     <<1, 2>>, <<4, 2>>, <<2, 1>>, <<1, 2>>, <<4, 3>>, <<3, 4>>,
     <<2, 4>>, <<1, 2>>, <<4, 2>>, <<2, 1>>, <<4, 3>>, <<2, 4>> >>

\* The next call of the test.
Replay ==
  /\ NextHashAll <= Len(ConsensusSchedule)
  /\ last.op = "inbound_sync" => last.ok
  /\ \E n \in {ConsensusSchedule[NextHashAll][1]} :
       \E m \in {ConsensusSchedule[NextHashAll][2]} :
         /\ CanPull(n, m)
         /\ Inbound(n, PullStream(n, m), Committee4)
  /\ UNCHANGED <<voter, log, panicked, stale, voter2, log2, panicked2, stale2, chain, acl, txq, machine, files>>

NextConsensus == Replay

SpecConsensus == Init /\ [][NextConsensus]_vars

(***************************************************************************)
(* SpecChain: an AuthorChain gets its genesis committee, then authors are  *)
(* proposed for addition and removal, the proposed block is signed (by     *)
(* members and by others, over its hash and over another), and rounds are  *)
(* started.                                                                *)
(***************************************************************************)
\* The authors there are.
ChainAuthors == 1..MaxChainAuthor

\* The committees genesis is called with.
GenesisSets == {1..n : n \in (MaxChainAuthor - 1)..MaxChainAuthor}

\* The signatures handed to sign_block: by any author, over the hash of the
\* proposed block or over the genesis hash.
ChainSignatures ==
  {Sign(s, h) : s \in ChainAuthors,
                h \in {GENESIS_HASH} \cup {Unwrap(chain.proposed).hash : x \in chain.proposed}}

\* The steps of the chain leave the voters and the nodes alone; l records the
\* call.
ChainStep(l, next) ==
  /\ chain' = next
  /\ last' = l
  /\ UNCHANGED <<voter, log, panicked, stale, voter2, log2, panicked2, stale2, nodes, acl, txq, machine, files>>

ChainGenesis ==
  /\ chain.block = 0
  /\ chain.proposed = None
  /\ \E authors \in GenesisSets :
       ChainStep([op |-> "genesis"], genesis(chain, authors))

ChainAddAuthor ==
  /\ chain.block > 0
  /\ \E author \in ChainAuthors : \E block \in 0..MaxBlock :
       ChainStep([op |-> "add_author", same_block |-> block = chain.block],
                 add_author(chain, author, block))

ChainRemAuthor ==
  /\ chain.block > 0
  /\ \E author \in ChainAuthors : \E block \in 0..MaxBlock :
       ChainStep([op |-> "rem_author", same_block |-> block = chain.block],
                 rem_author(chain, author, block))

ChainSignBlock ==
  /\ chain.block > 0
  /\ \E author \in ChainAuthors : \E sig \in ChainSignatures :
       ChainStep([op |-> "sign_block"], sign_block(chain, author, sig))

ChainStartRound ==
  /\ chain.block > 0
  /\ Cardinality(chain.builder.authors) > 0 => Len(chain.builder.parent) < MaxBlock
  /\ ChainStep([op |-> "start_round", authors |-> chain.authors, block |-> chain.block,
                proposed |-> chain.proposed],
               start_round(chain).chain)

NextChain ==
  ChainGenesis \/ ChainAddAuthor \/ ChainRemAuthor \/ ChainSignBlock \/ ChainStartRound

SpecChain == Init /\ [][NextChain]_vars

(***************************************************************************)
(* SpecReplay: a chain of the committee {1, 2} with a third author; up to  *)
(* MaxReplayBlock blocks are proposed, so that a block can be proposed     *)
(* after another was dropped.  Calls are made with the current block       *)
(* number and with signatures over the hash of the proposed block.         *)
(***************************************************************************)
ReplayAuthors == 1..MaxReplayAuthor

ReplayGenesis ==
  /\ chain.block = 0
  /\ ChainStep([op |-> "genesis"], genesis(chain, {1, 2}))

ReplayAddAuthor ==
  /\ chain.block > 0
  /\ \E author \in ReplayAuthors :
       ChainStep([op |-> "add_author", same_block |-> TRUE],
                 add_author(chain, author, chain.block))

ReplayRemAuthor ==
  /\ chain.block > 0
  /\ \E author \in ReplayAuthors :
       ChainStep([op |-> "rem_author", same_block |-> TRUE],
                 rem_author(chain, author, chain.block))

ReplaySignBlock ==
  /\ IsSome(chain.proposed)
  /\ \E author \in ReplayAuthors :
       ChainStep([op |-> "sign_block"],
                 sign_block(chain, author, Sign(author, Unwrap(chain.proposed).hash)))

ReplayStartRound ==
  /\ chain.block > 0
  /\ Cardinality(chain.builder.authors) > 0 => Len(chain.builder.parent) < MaxReplayBlock
  /\ ChainStep([op |-> "start_round", authors |-> chain.authors, block |-> chain.block,
                proposed |-> chain.proposed],
               start_round(chain).chain)

NextReplay ==
  ReplayGenesis \/ ReplayAddAuthor \/ ReplayRemAuthor \/ ReplaySignBlock \/ ReplayStartRound

SpecReplay == Init /\ [][NextReplay]_vars

(***************************************************************************)
(* SpecAcl: two authors write, remove and compare-and-swap the keys of two *)
(* prefixes, and add and remove authors of the prefixes.  The prefixes are *)
(* the empty one and <<0>>, the bytes of Key::new("", "").                 *)
(***************************************************************************)
AclAuthors == 1..MaxAclAuthor

AclPrefixes == {<<>>, <<0>>}

\* The keys: the one with an empty key part of each prefix.
AclKeys == {KeyNew(p, <<>>) : p \in AclPrefixes}

\* The values written: two that are no author list, and the bytes of the
\* author lists of one author.
AclValues == {<<8>>, <<9>>} \cup {SerializeAuthors(<<a>>) : a \in AclAuthors}

\* A call of the Acl: r is its result, l the record of the call.
AclStep(l, r) ==
  /\ acl' = r.tree
  /\ last' = [call |-> l, res |-> r.res, op |-> "acl"]
  /\ UNCHANGED <<voter, log, panicked, stale, voter2, log2, panicked2, stale2, nodes, chain, txq, machine, files>>

AclInsert ==
  \E author \in AclAuthors : \E key \in AclKeys : \E value \in AclValues :
    AclStep([op |-> "insert", author |-> author, key |-> key, prefix |-> KeyPrefix(key)],
            insert(acl, author, key, value))

AclRemove ==
  \E author \in AclAuthors : \E key \in AclKeys :
    AclStep([op |-> "remove", author |-> author, key |-> key, prefix |-> KeyPrefix(key)],
            remove(acl, author, key))

AclCompareAndSwap ==
  \E author \in AclAuthors : \E key \in AclKeys :
    \E old \in {None} \cup {Some(v) : v \in AclValues} :
      \E new \in {None} \cup {Some(v) : v \in AclValues} :
        AclStep([op |-> "compare_and_swap", author |-> author, key |-> key,
                 prefix |-> KeyPrefix(key)],
                compare_and_swap(acl, author, key, old, new))

AclAddAuthor ==
  \E author \in AclAuthors : \E prefix \in AclPrefixes : \E new \in AclAuthors :
    AclStep([op |-> "add_author_to_prefix", author |-> author, prefix |-> prefix,
             new |-> new],
            add_author_to_prefix(acl, author, prefix, new))

AclRemoveAuthor ==
  \E author \in AclAuthors : \E prefix \in AclPrefixes : \E rm \in AclAuthors :
    AclStep([op |-> "remove_author_from_prefix", author |-> author, prefix |-> prefix,
             rm |-> rm],
            remove_author_from_prefix(acl, author, prefix, rm))

NextAcl == AclInsert \/ AclRemove \/ AclCompareAndSwap \/ AclAddAuthor \/ AclRemoveAuthor

SpecAcl == Init /\ [][NextAcl]_vars

(***************************************************************************)
(* SpecQueue: local callers submit transactions and poll their futures;    *)
(* the node drains the queue into the payload of its events; the           *)
(* transactions of the committed events, its own and those of other nodes, *)
(* are committed with their results.  txq.q is the queue, txq.futures the  *)
(* futures handed out (one per submission, in order), txq.flight the       *)
(* submissions drained and not yet committed, txq.done the result each     *)
(* committed submission got.                                               *)
(***************************************************************************)
QueueTransactions == 1..MaxTransaction

QueueResults == {"ok", "permission", "cas"}

QueueStep(l, next) ==
  /\ txq' = next
  /\ last' = l
  /\ UNCHANGED <<voter, log, panicked, stale, voter2, log2, panicked2, stale2, nodes, chain, acl, machine, files>>

\* A local caller submits tx.
QueueSubmit ==
  /\ Len(txq.futures) < MaxSubmissions
  /\ \E tx \in QueueTransactions :
       \E r \in {create_transaction(txq.q, tx)} :
         QueueStep([op |-> "create_transaction"],
                   [txq EXCEPT !.q = r.q,
                               !.futures = Append(@, [subscription |-> r.future, tx |-> tx])])

\* The node drains the queue into an event.
QueuePayload ==
  /\ txq.q.queue # <<>>
  /\ QueueStep([op |-> "create_payload"],
               [txq EXCEPT !.q = create_payload(txq.q).q,
                           !.flight = @ \o [k \in 1..Len(txq.q.queue) |->
                                              Len(txq.done) + Len(txq.flight) + k]])

\* The next transaction of the node's own events is committed.
QueueCommitOwn ==
  /\ txq.flight # <<>>
  /\ \E result \in QueueResults :
       QueueStep([op |-> "commit", own |-> TRUE],
                 [txq EXCEPT !.q = commit(txq.q, txq.futures[Head(txq.flight)].tx, result),
                             !.flight = Tail(@),
                             !.done = Append(@, result)])

\* A transaction of another node's event is committed.
QueueCommitOther ==
  /\ txq.foreign < MaxForeign
  /\ \E tx \in QueueTransactions : \E result \in QueueResults :
       QueueStep([op |-> "commit", own |-> FALSE],
                 [txq EXCEPT !.q = commit(txq.q, tx, result), !.foreign = @ + 1])

\* The task of a future polls it.
QueuePoll ==
  \E f \in 1..Len(txq.futures) :
    \E r \in {poll(txq.q, txq.futures[f].subscription, f)} :
      QueueStep([op |-> "poll", future |-> f, res |-> r.res], [txq EXCEPT !.q = r.q])

NextQueue == QueueSubmit \/ QueuePayload \/ QueueCommitOwn \/ QueueCommitOther \/ QueuePoll

SpecQueue == Init /\ [][NextQueue]_vars


(***************************************************************************)
(* The State and its checkpoints: machine is the State of a node, files    *)
(* the directory of checkpoint files.  The node commits transactions,      *)
(* starts rounds, exports and imports checkpoints; a file of the directory *)
(* can lose its end or have its last value overwritten.                    *)
(***************************************************************************)
\* The authors of the committed events: a member of the first committee and
\* an author outside it.
CheckpointAuthors == {1, MaxCheckpointAuthor}

CheckpointGenesisSets == {1..(MaxCheckpointAuthor - 1)}

\* The sets of authors whose signatures come with an imported checkpoint.
CheckpointSigners == {{}, {1}, {MaxCheckpointAuthor}}

CheckpointKeys == {KeyNew(<<>>, <<1>>)}

CheckpointValues == {<<8>>}

CheckpointKinds ==
  {"AddAuthor", "SignBlock", "Insert", "Remove", "SignCheckpoint"}

\* The transactions of a kind that a committed event can carry.
CheckpointOps(kind) ==
  CASE kind = "Insert" ->
         {[kind |-> kind, key |-> k, value |-> v] :
            k \in CheckpointKeys, v \in CheckpointValues}
    [] kind = "Remove" ->
         {[kind |-> kind, key |-> k] : k \in CheckpointKeys}
    [] kind = "AddAuthor" ->
         {[kind |-> kind, author |-> MaxCheckpointAuthor, block |-> b] :
            b \in {machine.authors.block}}
    [] kind = "SignBlock" ->
         {[kind |-> kind, signature |-> Sign(s, Unwrap(machine.authors.proposed).hash)] :
            s \in IF IsSome(machine.authors.proposed) THEN CheckpointAuthors ELSE {}}
    [] kind = "SignCheckpoint" ->
         {[kind |-> kind, signature |-> Sign(s, c)] :
            s \in CheckpointAuthors, c \in DOMAIN files}

\* A file is intact when its content has the digest it is named by.
Intact(name) == HasherSum(files[name]) = name

CheckpointGenesis ==
  /\ machine.authors.block = 0
  /\ \E genesis_authors \in CheckpointGenesisSets :
       /\ machine' = StateGenesis(machine, genesis_authors)
       /\ last' = [op |-> "genesis"]
  /\ UNCHANGED <<voter, log, panicked, stale, voter2, log2, panicked2, stale2, nodes, chain, acl, txq, files>>

CheckpointCommit ==
  /\ machine.authors.block > 0
  /\ \E author \in CheckpointAuthors, kind \in CheckpointKinds :
     \E op \in CheckpointOps(kind) :
       /\ op.kind = "AddAuthor" => machine.authors.block < MaxCheckpointBlock
       /\ machine' = StateCommit(machine, author, op).state
       /\ last' = [op |-> "commit"]
  /\ UNCHANGED <<voter, log, panicked, stale, voter2, log2, panicked2, stale2, nodes, chain, acl, txq, files>>

CheckpointStartRound ==
  /\ machine.authors.block > 0
  /\ Cardinality(machine.authors.builder.authors) > 0
       => Len(machine.authors.builder.parent) < MaxCheckpointBlock
  /\ machine' = StateStartRound(machine)
  /\ last' = [op |-> "start_round"]
  /\ UNCHANGED <<voter, log, panicked, stale, voter2, log2, panicked2, stale2, nodes, chain, acl, txq, files>>

CheckpointExport ==
  /\ machine.authors.block > 0
  /\ Cardinality(DOMAIN export_checkpoint(machine, files).dir) <= MaxExports
  /\ machine' = export_checkpoint(machine, files).state
  /\ files' = export_checkpoint(machine, files).dir
  /\ last' = [op |-> "export"]
  /\ UNCHANGED <<voter, log, panicked, stale, voter2, log2, panicked2, stale2, nodes, chain, acl, txq>>

CheckpointImport ==
  /\ \E name \in (DOMAIN files) \cup {HasherSum(<<>>)}, signers \in CheckpointSigners :
       LET checkpoint == [checkpoint |-> name,
                          signatures |-> [k \in 1..Cardinality(signers) |->
                                            Sign(canonicalize_authors(signers)[k], name)]]
           r == import_checkpoint(machine, files, checkpoint)
       IN  /\ machine' = r.state
           /\ last' = [op |-> "import", res |-> r.res, checkpoint |-> checkpoint,
                       digest |-> IF name \in DOMAIN files
                                  THEN HasherSum(SubSeq(files[name], 1, r.read))
                                  ELSE HasherSum(<<>>)]
  /\ UNCHANGED <<voter, log, panicked, stale, voter2, log2, panicked2, stale2, nodes, chain, acl, txq, files>>

\* The file loses its end: the first KeptItems items are left.
CheckpointTruncate ==
  /\ \E name \in DOMAIN files :
       /\ Intact(name)
       /\ Len(files[name]) > KeptItems
       /\ files' = [files EXCEPT ![name] = SubSeq(@, 1, KeptItems)]
       /\ last' = [op |-> "truncate"]
  /\ UNCHANGED <<voter, log, panicked, stale, voter2, log2, panicked2, stale2, nodes, chain, acl, txq, machine>>

\* The last value of the file, a value of the key-value tree, is
\* overwritten with other bytes.
CheckpointCorrupt ==
  /\ \E name \in DOMAIN files :
       /\ Intact(name)
       /\ files[name][2 + 2 * files[name][1]] > 0
       /\ files' = [files EXCEPT ![name][Len(files[name])] = <<7>>]
       /\ last' = [op |-> "corrupt"]
  /\ UNCHANGED <<voter, log, panicked, stale, voter2, log2, panicked2, stale2, nodes, chain, acl, txq, machine>>

NextCheckpoint ==
  \/ CheckpointGenesis
  \/ CheckpointCommit
  \/ CheckpointStartRound
  \/ CheckpointExport
  \/ CheckpointImport
  \/ CheckpointTruncate
  \/ CheckpointCorrupt

SpecCheckpoint == Init /\ [][NextCheckpoint]_vars

(***************************************************************************)
(* One vote of decide_fame on its own: a voter at distance diff > 1 from   *)
(* the witness counts the votes of the witnesses it strongly sees.  The    *)
(* graph holds the witness (1), the voter (2) and the witnesses whose      *)
(* votes are counted (3 ..), the first `yes` of them voting yes.           *)
(* Each behaviour looks at one vote.                                      *)
(***************************************************************************)
VoteGraph(yes, no, sig) ==
  [EmptyGraph EXCEPT !.events =
     [h \in 1..(2 + yes + no) |->
        [NewEvent([author |-> h, self_hash |-> None, other_hash |-> None,
                   time |-> 0, signature |-> IF h = 2 THEN sig ELSE 0], h, 1)
           EXCEPT !.votes = IF h > 2 THEN (1 :> (h <= 2 + yes)) ELSE <<>>]]]

Tally ==
  /\ last.op # "vote"
  /\ \E diff \in 2..MaxDiff, yes \in 0..MaxVotes, no \in 0..MaxVotes,
        n \in 1..MaxVotePopulation, sig \in 0..1 :
       LET r == NewRound(diff + 1, 1, [k \in 1..n |-> k])
           s == CountVotes(VoteGraph(yes, no, sig), 1, threshold(r),
                           [voter |-> 2, round |-> r, diff |-> diff], 0,
                           [k \in 1..(yes + no) |-> k + 2])
       IN  last' = [op |-> "vote", diff |-> diff, yes |-> yes, no |-> no,
                    threshold |-> threshold(r), coin |-> CoinBit(sig) = 1,
                    vote |-> s.graph.events[2].votes[1],
                    famous |-> s.graph.events[1].famous]
  /\ UNCHANGED <<voter, log, panicked, stale, voter2, log2, panicked2, stale2, nodes, chain, acl, txq, machine, files>>

NextVote == Tally

SpecVote == Init /\ [][NextVote]_vars

(***************************************************************************)
(* SpecStart: Voter::add_event with a start_round callback that may fail.  *)
(* The callback is State::start_round, which returns an error when the     *)
(* store of the author chain fails; the voter calls it only when the new   *)
(* event is a witness opening a round that does not exist yet.             *)
(***************************************************************************)
\* What the start_round callback returns when the store fails.
FailedStartRound == [ok |-> FALSE, block |-> 0, authors |-> <<>>]

\* The voter is handed the next event of an author; the callback succeeds or
\* fails: Voter::add_event.
StartAdd ==
  /\ ~panicked
  /\ NextHash(voter.graph) <= MaxStartEvents
  /\ \E raw \in RawEvents(voter.graph, Creators, Forkers) :
       \E sr \in {StartRound(Committee), FailedStartRound} :
         \E r \in {VoterAddEvent(voter, raw, sr)} :
           /\ voter' = r.voter
           /\ panicked' = r.panic
           /\ last' = [op |-> "add_event", ok |-> r.ok, panic |-> r.panic,
                       raw |-> raw, start |-> sr.ok]
  /\ UNCHANGED <<log, stale, voter2, log2, panicked2, stale2, nodes, chain, acl, txq, machine, files>>

NextStart == StartAdd

SpecStart == Init /\ [][NextStart]_vars

(***************************************************************************)
(* SpecSign: the nodes 1 and 2 of SpecInbound, where signing the sync      *)
(* event may fail.  UnsignedRawEvent::sign returns the error of            *)
(* UnsignedRawEvent::hash: a clock before UNIX_EPOCH (duration_since) or a *)
(* payload that does not serialize (event.rs:26-46).                       *)
(***************************************************************************)
\* HashGraph::inbound_sync when sign returns an error: the import loop has
\* run, self_hash was moved out by take() into the event that is dropped,
\* and the `?` returns before self_hash is set again.
inbound_sync_sign_err(hg, events, start) ==
  IF ~ImportLoop(hg, events, 1, start).ok
  THEN [ok |-> FALSE, panic |-> ImportLoop(hg, events, 1, start).panic,
        created |-> FALSE, processed |-> FALSE,
        hg |-> ImportLoop(hg, events, 1, start).hg]
  ELSE [ok |-> FALSE, panic |-> FALSE, created |-> FALSE, processed |-> FALSE,
        hg |-> [ImportLoop(hg, events, 1, start).hg EXCEPT !.self_hash = None]]

\* Node n calls inbound_sync with the stream events and sign fails.
InboundSignErr(n, events, committee) ==
  \E r \in {inbound_sync_sign_err(nodes[n], events, StartRound(committee))} :
    /\ nodes' = [nodes EXCEPT ![n] = r.hg]
    /\ last' = [op |-> "inbound_sync", node |-> n, events |-> events, ok |-> r.ok,
                panic |-> r.panic, created |-> r.created, processed |-> r.processed]

\* Node n syncs from node m (from nobody when m = n); sign succeeds or fails.
PullSign ==
  /\ NextHashAll <= MaxSignEvents
  /\ last.op = "inbound_sync" => ~last.panic
  /\ \E n \in {1, 2} : \E m \in {1, 2} :
       /\ CanPull(n, m)
       /\ \/ Inbound(n, PullStream(n, m), Committee)
          \/ InboundSignErr(n, PullStream(n, m), Committee)
  /\ UNCHANGED <<voter, log, panicked, stale, voter2, log2, panicked2, stale2, chain, acl, txq, machine, files>>

NextSign == PullSign

SpecSign == Init /\ [][NextSign]_vars

(***************************************************************************)
(* SpecReadd: the two authors of Spec create fork-free events, and once in *)
(* a run the node is handed again an event it already stores (a peer sends *)
(* it a second time).                                                      *)
(***************************************************************************)
\* An author creates an event and the node adds it: Voter::add_event.
ReaddNew ==
  /\ ~panicked
  /\ NextHash(voter.graph) <= MaxReaddEvents
  /\ \E raw \in RawEvents(voter.graph, Creators, {}) :
       \E r \in {VoterAddEvent(voter, raw, StartRound(Committee))} :
         /\ voter' = r.voter
         /\ panicked' = r.panic
         /\ last' = [op |-> "add_event", ok |-> r.ok, hash |-> raw.hash]
  /\ UNCHANGED <<log, stale, voter2, log2, panicked2, stale2, nodes, chain, acl, txq, machine, files>>

\* No stored event was handed to the voter a second time: no hash is twice
\* among the witnesses of a round or the children of an event.
NotReadded(v) ==
  /\ \A i \in DOMAIN v.rounds :
       Cardinality(Range(v.rounds[i].witnesses)) = Len(v.rounds[i].witnesses)
  /\ \A h \in DOMAIN v.graph.events :
       Cardinality(Range(v.graph.events[h].children)) = Len(v.graph.events[h].children)

\* The node is handed the raw event of a stored event, once in a run:
\* Voter::add_event.
ReaddStored ==
  /\ ~panicked
  /\ last.op \in {"add_event", "process_rounds"}
  /\ NotReadded(voter)
  /\ \E h \in DOMAIN voter.graph.events :
       \E r \in {VoterAddEvent(voter, RawOf(voter.graph, h), StartRound(Committee))} :
         /\ voter' = r.voter
         /\ panicked' = r.panic
         /\ last' = [op |-> "readd", ok |-> r.ok, hash |-> h]
  /\ UNCHANGED <<log, stale, voter2, log2, panicked2, stale2, nodes, chain, acl, txq, machine, files>>

\* Voter::process_rounds.
ReaddProcess ==
  /\ ~panicked
  /\ last.op \in {"add_event", "readd"}
  /\ \E r \in {process_rounds(voter)} :
       /\ voter' = r.voter
       /\ log' = log \o r.commit
       /\ panicked' = r.panic
       /\ last' = [op |-> "process_rounds", ok |-> ~r.panic, hash |-> 0]
  /\ UNCHANGED <<stale, voter2, log2, panicked2, stale2, nodes, chain, acl, txq, machine, files>>

NextReadd == ReaddNew \/ ReaddStored \/ ReaddProcess

SpecReadd == Init /\ [][NextReadd]_vars

(***************************************************************************)
(* SpecParent: the graph of one node that is handed, besides the events of *)
(* Spec, signed events whose self_hash names a stored event of another     *)
(* author (an author is free to sign any parents).                         *)
(***************************************************************************)
\* The events an author may sign next with the self-parent replaced by a
\* stored event of another author.
CrossRawEvents(g) ==
  UNION { { [raw EXCEPT !.self_hash = Some(h)] :
            h \in {k \in DOMAIN g.events : g.events[k].author # raw.author} } :
          raw \in RawEvents(g, Creators, {}) }

\* The node is handed an event: Voter::add_event.
ParentAdd ==
  /\ ~panicked
  /\ NextHash(voter.graph) <= MaxParentEvents
  /\ \E raw \in RawEvents(voter.graph, Creators, {}) \cup CrossRawEvents(voter.graph) :
       \E r \in {VoterAddEvent(voter, raw, StartRound(Committee))} :
         /\ voter' = r.voter
         /\ panicked' = r.panic
         /\ last' = [op |-> "add_event", ok |-> r.ok, raw |-> raw]
  /\ UNCHANGED <<log, stale, voter2, log2, panicked2, stale2, nodes, chain, acl, txq, machine, files>>

NextParent == ParentAdd

SpecParent == Init /\ [][NextParent]_vars

(***************************************************************************)
(* SpecSyncState: the nodes 1 and 2 of SpecInbound, where in every state a *)
(* node may be asked for its sync state.                                   *)
(***************************************************************************)
\* HashGraph::sync_state
HashGraphSyncState(hg) == VoterSyncState(hg.voter)

\* Node n is asked for its sync state.
NodeSyncState ==
  /\ \E n \in {1, 2} :
       \E r \in {HashGraphSyncState(nodes[n])} :
         last' = [op |-> "sync_state", node |-> n, panic |-> r.panic, seq |-> r.seq,
                  fresh |-> nodes[n].voter.graph.events = <<>>]
  /\ UNCHANGED <<voter, log, panicked, stale, voter2, log2, panicked2, stale2, nodes, chain, acl, txq, machine, files>>

NextSyncState == Pull \/ NodeSyncState

SpecSyncState == Init /\ [][NextSyncState]_vars

(***************************************************************************)
(* Properties.                                                             *)
(***************************************************************************)
\* round_created of a stored event, 0 for an absent parent.
RoundOf(g, opt) == IF opt = None THEN 0 ELSE Unwrap(g.events[Unwrap(opt)].round_created)

\* pr of an event: the larger round_created of its two parents.
ParentRound(g, h) ==
  Max(RoundOf(g, g.events[h].self_hash), RoundOf(g, g.events[h].other_hash))

\* The rounds numbered n.
RoundsNumbered(rounds, n) == {i \in 1..Len(rounds) : rounds[i].round = n}

\* The round an event must get by the rule of the specification, rounds
\* being the rounds before the event was added and g the graph with it.
ExpectedRound(rounds, g, h) ==
  LET pr == ParentRound(g, h)
      at == RoundsNumbered(rounds, pr)
  IN  IF at = {} THEN pr + 1
      ELSE LET r == rounds[SetMin(at)]
               k == Cardinality({w \in Range(r.witnesses) :
                                   strongly_see(g, h, w, r.authors)})
           IN  IF k > (2 * Len(r.authors)) \div 3 THEN pr + 1 ELSE pr

\* C8: Voter::add_event gives the new event the round pr + 1 when round pr
\* does not exist or the event strongly sees more than 2*|committee(pr)|/3
\* witnesses of round pr, and the round pr otherwise, pr being the larger
\* round_created of its parents (0 for an absent parent).
C8_RoundAssignment ==
  [][\A h \in DOMAIN voter'.graph.events \ DOMAIN voter.graph.events :
       voter'.graph.events[h].round_created
         = Some(ExpectedRound(voter.rounds, voter'.graph, h))]_vars

\* An event that stayed in round pr although that round exists, and an event
\* that left an existing round pr for pr + 1.
C8_Witness ==
  /\ \E h \in DOMAIN voter.graph.events :
       /\ IsSome(voter.graph.events[h].self_hash)
       /\ voter.graph.events[h].round_created = Some(ParentRound(voter.graph, h))
  /\ \E h \in DOMAIN voter.graph.events :
       /\ IsSome(voter.graph.events[h].self_hash)
       /\ voter.graph.events[h].round_created = Some(ParentRound(voter.graph, h) + 1)

\* C9: an event is a witness exactly when it has no self-parent or its
\* round_created is greater than that of its self-parent, and every witness
\* is listed in the witnesses of the round numbered by its round_created.
C9_WitnessRule ==
  \A h \in DOMAIN voter.graph.events :
    LET e == voter.graph.events[h]
    IN  /\ e.witness =
             Some(\/ e.self_hash = None
                  \/ Unwrap(e.round_created) > RoundOf(voter.graph, e.self_hash))
        /\ e.witness = Some(TRUE) =>
             \E i \in RoundsNumbered(voter.rounds, Unwrap(e.round_created)) :
               h \in Range(voter.rounds[i].witnesses)

\* A witness that has a self-parent, and an event that is no witness.
C9_Witness ==
  /\ \E h \in DOMAIN voter.graph.events :
       /\ IsSome(voter.graph.events[h].self_hash)
       /\ voter.graph.events[h].witness = Some(TRUE)
  /\ \E h \in DOMAIN voter.graph.events : voter.graph.events[h].witness = Some(FALSE)

\* The parents of an event, as a set of hashes.
ParentSet(g, h) == g.events[h].self_hash \cup g.events[h].other_hash

RECURSIVE Reach(_, _)
\* The events reachable from those of S by zero or more parent edges.
Reach(g, S) ==
  LET more == S \cup UNION {ParentSet(g, h) : h \in S}
  IN  IF more = S THEN S ELSE Reach(g, more)

RECURSIVE SelfChain(_, _)
\* The events reachable from h by zero or more self-parent edges.
SelfChain(g, h) ==
  {h} \cup (IF g.events[h].self_hash = None THEN {}
            ELSE SelfChain(g, Unwrap(g.events[h].self_hash)))

\* The events by the author of y among the ancestors of x.
CreatedBy(g, x, y) ==
  {a \in Reach(g, {x}) : g.events[a].author = g.events[y].author}

\* C10: see(x, y) holds exactly when y is an ancestor of x (zero or more
\* parent edges) and every two events of y's author among the ancestors of x
\* lie on one self-parent chain; so see(x, y) implies y in ancestors(x), and
\* an event does not see its child.
C10_See ==
  \A x \in DOMAIN voter.graph.events : \A y \in DOMAIN voter.graph.events :
    /\ see(voter.graph, x, y) =
         (/\ y \in Reach(voter.graph, {x})
          /\ \A a \in CreatedBy(voter.graph, x, y) : \A b \in CreatedBy(voter.graph, x, y) :
               a \in SelfChain(voter.graph, b) \/ b \in SelfChain(voter.graph, a))
    /\ see(voter.graph, x, y) => ancestor(voter.graph, x, y)
    /\ (x # y /\ x \in ParentSet(voter.graph, y)) => ~see(voter.graph, x, y)

\* An event that has y among its ancestors and does not see it, for the fork
\* of y's author among its ancestors; and an event that sees an ancestor.
C10_Witness ==
  /\ \E x \in DOMAIN voter.graph.events : \E y \in DOMAIN voter.graph.events :
       /\ x # y
       /\ y \in Reach(voter.graph, {x})
       /\ ~see(voter.graph, x, y)
  /\ \E x \in DOMAIN voter.graph.events : \E y \in DOMAIN voter.graph.events :
       x # y /\ see(voter.graph, x, y)

\* The key an event is ordered by, once it is received.
ReceivedKey(g, h) ==
  << Unwrap(g.events[h].round_received), Unwrap(g.events[h].time_received),
     Unwrap(g.events[h].whitened_signature) >>

\* Lexicographic order of two keys.
KeyLeq(k1, k2) ==
  \/ k1[1] < k2[1]
  \/ k1[1] = k2[1] /\ k1[2] < k2[2]
  \/ k1[1] = k2[1] /\ k1[2] = k2[2] /\ k1[3] <= k2[3]

\* C2: the concatenation of the hash lists returned by the process_rounds
\* calls of a voter is sorted ascending by (round_received, time_received,
\* whitened_signature); no event is emitted after one with a larger
\* round_received.
C2_TotalOrder ==
  \A i \in 1..Len(log) : \A j \in (i + 1)..Len(log) :
    KeyLeq(ReceivedKey(voter.graph, log[i]), ReceivedKey(voter.graph, log[j]))

\* The log holds events of two rounds, and two events of one round that are
\* not in the order of their creation.
C2_Witness ==
  /\ \E i \in 1..Len(log) : \E j \in 1..Len(log) :
       ReceivedKey(voter.graph, log[i])[1] < ReceivedKey(voter.graph, log[j])[1]
  /\ \E i \in 1..Len(log) : \E j \in (i + 1)..Len(log) :
       /\ ReceivedKey(voter.graph, log[i])[1] = ReceivedKey(voter.graph, log[j])[1]
       /\ log[i] > log[j]

AllFameSet(g, r) ==
  \A k \in 1..Len(r.witnesses) : IsSome(g.events[r.witnesses[k]].famous)

\* C7: with a silent author in a committee of four, a round whose witnesses
\* all have famous set is marked decided by process_rounds although it has
\* fewer witnesses than the committee has members: after a process_rounds
\* call, the first round that is not decided has a witness without famous.
C7_SilentProgress ==
  (~stale /\ ~panicked) =>
    \A i \in 1..Len(voter.rounds) :
      (/\ \A j \in 1..(i - 1) : voter.rounds[j].decided
       /\ AllFameSet(voter.graph, voter.rounds[i]))
        => voter.rounds[i].decided

\* C1: two voters that hold the same events and have both called
\* process_rounds after their last insertion have returned the same
\* concatenation of hash lists.
C1_SameCommits ==
  (/\ ~stale /\ ~stale2 /\ ~panicked /\ ~panicked2
   /\ DOMAIN voter.graph.events = DOMAIN voter2.graph.events)
    => log = log2

\* C5: every round whose decided flag is true has famous set for each of
\* its witnesses.
C5_DecidedRoundsHaveFame ==
  \A i \in 1..Len(voter.rounds) :
    voter.rounds[i].decided => AllFameSet(voter.graph, voter.rounds[i])

\* The witnesses of a round whose author has exactly one witness in it and
\* whose famous is Some(true).
UniqueFamous(g, r) ==
  {w \in Range(r.witnesses) :
     /\ g.events[w].famous = Some(TRUE)
     /\ Cardinality({x \in Range(r.witnesses) : g.events[x].author = g.events[w].author}) = 1}

\* C6: the unique_famous_witnesses of a decided round are exactly the
\* witnesses of the round with famous = Some(true) whose author has one
\* witness in the round: none whose fame was decided false, none of an
\* author with two or more witnesses.
C6_UniqueFamousWitnesses ==
  \A i \in 1..Len(voter.rounds) :
    voter.rounds[i].decided =>
      Range(voter.rounds[i].unique_famous_witnesses)
        = UniqueFamous(voter.graph, voter.rounds[i])

RECURSIVE FameAssigned(_, _, _, _, _, _, _)
\* FameAssigned after the loop body left the state s for voter k - 1.
FameStep(s, rounds, witness, thresh, its, k, acc) ==
  IF s.num_decided > 0
  THEN FameAssigned(s.graph, rounds, witness, thresh, its, k,
                    Append(acc, Unwrap(s.graph.events[witness].famous)))
  ELSE FameAssigned(s.graph, rounds, witness, thresh, its, k, acc)

\* The values the loop of decide_fame over WitnessIter assigns to the famous
\* field of witness, from voter k on, in the order of the assignments.
FameAssigned(g, rounds, witness, thresh, its, k, acc) ==
  IF k > Len(its) THEN acc
  ELSE FameStep(CastVote(g, rounds, witness, thresh, its[k], 0),
                rounds, witness, thresh, its, k + 1, acc)

\* The rounds process_rounds calls decide_fame on first: the first round
\* that is not decided.
FirstUndecided(rounds) ==
  {i \in 1..Len(rounds) :
     ~rounds[i].decided /\ \A j \in 1..(i - 1) : rounds[j].decided}

\* The decide_fame call that process_rounds makes first from this state
\* assigns one value at most to the famous field of each witness.
OneFamePerCall(v) ==
  \A i \in FirstUndecided(v.rounds) :
    \A w \in Range(v.rounds[i].witnesses) :
      v.graph.events[w].famous = None =>
        Cardinality(Range(FameAssigned(v.graph, v.rounds, w, threshold(v.rounds[i]),
                            WitnessIter(SubSeq(v.rounds, i, Len(v.rounds)), 1, <<>>),
                            1, <<>>))) <= 1

\* C3: once the famous field of a witness is set to Some(b), no later step
\* changes it to another value or to None: not the remaining voters of the
\* same decide_fame call, no later process_rounds call, no later add_event
\* call.
C3_FameMonotone ==
  [][/\ OneFamePerCall(voter)
     /\ \A h \in DOMAIN voter.graph.events :
          IsSome(voter.graph.events[h].famous) =>
            /\ h \in DOMAIN voter'.graph.events
            /\ voter'.graph.events[h].famous = voter.graph.events[h].famous]_vars

\* The committees strongly_see is asked about: the one of Spec, and one with
\* a third member who has created no event.
SeeCommittees == {<<1, 2>>, <<1, 2, 3>>}

\* C11: for all stored events x, y and every committee A,
\* strongly_see(x, y, A) implies see(x, y), also in graphs where an author
\* has forked.
C11_StronglySeeImpliesSee ==
  \A x \in DOMAIN voter.graph.events : \A y \in DOMAIN voter.graph.events :
    \A A \in SeeCommittees :
      strongly_see(voter.graph, x, y, A) => see(voter.graph, x, y)

\* The stored events that have y among their ancestors.
Descend(g, y) == {d \in DOMAIN g.events : y \in Reach(g, {d})}

\* The members a of the committee A for which an ancestor of x by a has a seq
\* at least that of some descendant of y by a.
SeeingAuthors(g, x, y, A) ==
  {i \in 1..Len(A) :
     \E a \in Reach(g, {x}) : \E d \in Descend(g, y) :
       /\ g.events[a].author = A[i]
       /\ g.events[d].author = A[i]
       /\ g.events[a].seq >= g.events[d].seq}

\* C12: for every committee size n, also n divisible by 3,
\* strongly_see(x, y, A) is true only when more than 2n/3 (integer division)
\* members a of A have max seq of an ancestor of x by a >= min seq of a
\* descendant of y by a.
C12_StrongSeeQuorum ==
  \A x \in DOMAIN voter.graph.events : \A y \in DOMAIN voter.graph.events :
    \A A \in SeeCommittees :
      strongly_see(voter.graph, x, y, A) =>
        Cardinality(SeeingAuthors(voter.graph, x, y, A)) > (2 * Len(A)) \div 3

\* C13: when Graph::add_event returns an error (unknown self-parent, unknown
\* other-parent, signature that does not verify) the graph is unchanged: the
\* events, the children of every stored event, the seq of every author and
\* the root are as before the call.
C13_AddEventAtomic ==
  [][(last'.op = "add_event" /\ ~last'.ok) => voter'.graph = voter.graph]_vars

\* An event with two stored parents was rejected for its signature.
C13_Witness ==
  /\ last.op = "add_event"
  /\ ~last.ok
  /\ ~last.raw.valid
  /\ IsSome(last.raw.self_hash) /\ Unwrap(last.raw.self_hash) \in DOMAIN voter.graph.events
  /\ IsSome(last.raw.other_hash) /\ Unwrap(last.raw.other_hash) \in DOMAIN voter.graph.events

PeerSeq(a) ==
  LET at == {i \in 1..Len(Committee) : Committee[i] = a /\ IsSome(last.seq[i])}
  IN  IF at = {} THEN 0 ELSE Unwrap(last.seq[SetMin(at)])

\* The events the last sync skipped as known to the peer.
Skipped(g) == {h \in DOMAIN g.events : g.events[h].seq <= PeerSeq(g.events[h].author)}

\* C15: in the sequence Graph::sync returns every event appears at most
\* once, no event with seq <= the seq of the peer for its author appears, and
\* every event comes after each of its parents that is in the sequence; each
\* parent that is not in the sequence is a skipped event, so a graph that
\* holds the skipped events takes the stream in order without a missing parent.
C15_SyncStreamOrder ==
  (last.op = "sync" /\ last.ok) =>
    /\ \A i \in 1..Len(last.stream) : \A j \in 1..Len(last.stream) :
         last.stream[i] = last.stream[j] => i = j
    /\ \A i \in 1..Len(last.stream) : last.stream[i] \notin Skipped(voter.graph)
    /\ \A i \in 1..Len(last.stream) :
         \A q \in ParentSet(voter.graph, last.stream[i]) :
           \/ \E j \in 1..(i - 1) : last.stream[j] = q
           \/ q \in Skipped(voter.graph) /\ q \notin Range(last.stream)

\* A sync that skipped an event and returned an event after its two parents,
\* one of which is the parent of the other.
C15_Witness ==
  /\ last.op = "sync" /\ last.ok
  /\ Skipped(voter.graph) # {}
  /\ \E i \in 1..Len(last.stream) :
       /\ Cardinality(ParentSet(voter.graph, last.stream[i]) \cap Range(last.stream)) = 2
       /\ \E q \in ParentSet(voter.graph, last.stream[i]) :
            ParentSet(voter.graph, q) \cap ParentSet(voter.graph, last.stream[i]) # {}

\* The ancestors of the root, the root included.
RootAncestors(g) == IF g.root = None THEN {} ELSE Reach(g, g.root)

\* C16 as stated: for any graph and any peer state, Graph::sync emits every
\* ancestor of the root (the root included) whose seq is greater than the
\* seq of the peer for its author (0 for an author the peer does not report).
C16_SyncComplete ==
  (last.op = "sync" /\ last.ok) =>
    RootAncestors(voter.graph) \ Skipped(voter.graph) \subseteq Range(last.stream)

\* The peer state is closed under ancestry: no skipped event has an ancestor
\* that is not skipped.
ClosedPeer(g) == \A h \in Skipped(g) : Reach(g, {h}) \subseteq Skipped(g)

\* C16 amended: for any graph and any peer state that is closed under
\* ancestry, Graph::sync emits every ancestor of the root (the root
\* included) whose seq is greater than the seq of the peer for its author.
C16_SyncCompleteClosed ==
  (last.op = "sync" /\ last.ok /\ ClosedPeer(voter.graph)) =>
    RootAncestors(voter.graph) \ Skipped(voter.graph) \subseteq Range(last.stream)

\* A sync for a closed peer state that skipped ancestors of the root, one of
\* them by an author the peer reported, and returned events of an author the
\* peer did not report.
C16_Witness ==
  /\ last.op = "sync" /\ last.ok /\ ClosedPeer(voter.graph)
  /\ RootAncestors(voter.graph) \cap Skipped(voter.graph) # {}
  /\ \E a \in Range(Committee) :
       /\ \A i \in 1..Len(Committee) : Committee[i] = a => last.seq[i] = None
       /\ \E i \in 1..Len(last.stream) : voter.graph.events[last.stream[i]].author = a
  /\ Len(last.stream) >= 2

\* The seqs of the stored events of an author.
SeqsOf(g, a) == {g.events[h].seq : h \in {k \in DOMAIN g.events : g.events[k].author = a}}

\* C17: for each author with a stored event the entry sync_state reports is
\* the maximum seq over the stored events of the author, and it never
\* decreases as events are added, also when a later-added event of the
\* author has a smaller seq than an earlier-added one.
C17_HighWaterSeq ==
  [][/\ \A i \in 1..Len(Committee) :
          SeqsOf(voter'.graph, Committee[i]) # {} =>
            sync_state(voter'.graph, Committee)[i]
              = Some(SetMax(SeqsOf(voter'.graph, Committee[i])))
     /\ \A i \in 1..Len(Committee) :
          IsSome(sync_state(voter.graph, Committee)[i]) =>
            /\ IsSome(sync_state(voter'.graph, Committee)[i])
            /\ Unwrap(sync_state(voter'.graph, Committee)[i])
                 >= Unwrap(sync_state(voter.graph, Committee)[i])]_vars

\* C18: when the stream given to inbound_sync holds an event that add_event
\* rejects as InvalidEvent, only that event is dropped: the valid events of
\* the stream are imported, the node creates its sync event, and
\* process_rounds runs in that call.
C18_InvalidEventDropped ==
  [][(/\ last'.op = "inbound_sync"
      /\ \E k \in 1..Len(last'.events) : last'.events[k] = BadEvent(last'.events[k].author))
       => /\ \A k \in 1..Len(last'.events) :
               last'.events[k] # BadEvent(last'.events[k].author) =>
                 last'.events[k].hash \in DOMAIN nodes'[last'.node].voter.graph.events
          /\ last'.created
          /\ last'.processed]_vars

\* The famous flag of event h on node n.
FamousOn(n, h) == nodes[n].voter.graph.events[h].famous

\* The calls of tests::consensus have all been made.
ConsensusDone ==
  /\ NextHashAll = Len(ConsensusSchedule) + 1
  /\ last.op = "inbound_sync"
  /\ last.ok

\* The first witnesses of round 1 and 2 by A, B, C and D in tests::consensus:
\* the events the calls 1..4, 14, 15, 18 and 13 create.
RoundOneWitnesses == {1, 2, 3, 4}
A2 == 14
B2 == 15
C2 == 18
D2 == 13

\* C19: after the four first events and the 30 syncs of tests::consensus, on
\* the nodes B and D, which reached round 4, the famous flags of A1, B1, C1,
\* D1, A2, B2 and D2 are Some(true) and the flag of C2 is Some(false).
C19_ConsensusFamous ==
  ConsensusDone =>
    \A n \in {2, 4} :
      /\ Len(nodes[n].voter.rounds) = 4
      /\ \A h \in RoundOneWitnesses \cup {A2, B2, D2} : FamousOn(n, h) = Some(TRUE)
      /\ FamousOn(n, C2) = Some(FALSE)

\* All calls made, and C2 is a round-2 witness on B and D that got its flag.
C19_Witness ==
  /\ ConsensusDone
  /\ \A n \in {2, 4} :
       /\ C2 \in Range(Unwrap(round(nodes[n].voter.rounds, 2)).witnesses)
       /\ IsSome(FamousOn(n, C2))

\* The members of the committee of chain c whose signature over the hash of
\* the proposed block the block carries.
MemberSigners(c) ==
  {a \in c.authors :
     /\ IsSome(c.proposed)
     /\ Sign(a, Unwrap(c.proposed).hash) \in Range(Unwrap(c.proposed).signatures)}

\* The proposed block of chain c carries valid signatures of at least
\* n - 2n/3 distinct members of the committee, n being its size.
HasQuorum(c) ==
  /\ IsSome(c.proposed)
  /\ Cardinality(MemberSigners(c))
       >= Cardinality(c.authors) - (2 * Cardinality(c.authors)) \div 3

\* C20: start_round changes the committee, by toggling exactly the authors
\* listed in the proposed block, and increments the block number by exactly 1
\* only if the proposed block carries valid signatures of at least n - 2n/3
\* distinct members of the committee (n its size); otherwise the committee,
\* the committee returned and the block number are as before.
C20_CommitteeQuorum ==
  [][last'.op = "start_round" =>
       /\ start_round(chain).authors = canonicalize_authors(chain'.authors)
       /\ ~HasQuorum(chain) =>
            /\ chain'.authors = chain.authors
            /\ chain'.block = chain.block
       /\ (chain'.authors # chain.authors \/ chain'.block # chain.block) =>
            /\ HasQuorum(chain)
            /\ chain'.block = chain.block + 1
            /\ \A a \in ChainAuthors :
                 (a \in chain'.authors) =
                   ((a \in chain.authors) # (a \in Range(Unwrap(chain.proposed).block.authors)))]_vars

\* start_round committed a block on a committee of four, whose quorum is two
\* signatures.
C20_Witness ==
  /\ last.op = "start_round"
  /\ Cardinality(last.authors) = 4
  /\ chain.block = last.block + 1
  /\ chain.authors # last.authors
  /\ Len(Unwrap(last.proposed).signatures) >= 2

\* C21: add_author and rem_author with a block number other than the current
\* one of the chain change nothing: the builder, the proposed block, the
\* committee, the block number and the tree are as before.
C21_StaleBlockNoOp ==
  [][(last'.op \in {"add_author", "rem_author"} /\ ~last'.same_block) =>
       chain' = chain]_vars

\* A call with another block number was made on a chain that has a proposed
\* block and authors in its builder.
C21_Witness ==
  /\ last.op \in {"add_author", "rem_author"}
  /\ ~last.same_block
  /\ IsSome(chain.proposed)
  /\ chain.builder.authors # {}

\* C22: after any sequence of genesis, add_author, rem_author, sign_block and
\* start_round, from_tree on the tree of the chain succeeds and gives the
\* committee and the genesis hash of the chain.
C22_ReplayEquivalent ==
  chain.block > 0 =>
    /\ from_tree(chain.tree).ok
    /\ from_tree(chain.tree).chain.authors = chain.authors
    /\ genesis_hash(from_tree(chain.tree).chain) = genesis_hash(chain)

\* The owner list of prefix p in tree: the empty list when none is stored or
\* when the bytes stored are no author list.
Owners(tree, p) ==
  IF StoredAuthors(tree, p).ok THEN StoredAuthors(tree, p).authors ELSE <<>>

\* The step is a call of insert, remove or compare_and_swap.
IsWrite(l) ==
  /\ l.op = "acl"
  /\ l.call.op \in {"insert", "remove", "compare_and_swap"}

\* C23: an insert, remove or compare_and_swap by an author who is not in the
\* non-empty owner list of the prefix of the key returns Permission and
\* leaves the value of the key and the owner list of the prefix as they were.
C23_PermissionNoChange ==
  [][(/\ IsWrite(last')
      /\ Owners(acl, last'.call.prefix) # <<>>
      /\ last'.call.author \notin Range(Owners(acl, last'.call.prefix)))
       => /\ last'.res = "permission"
          /\ TreeGet(acl', last'.call.key) = TreeGet(acl, last'.call.key)
          /\ TreeGet(acl', last'.call.prefix) = TreeGet(acl, last'.call.prefix)
          /\ acl' = acl]_vars

\* A compare_and_swap on a stored value was refused with Permission.
C23_Witness ==
  /\ last.op = "acl"
  /\ last.call.op = "compare_and_swap"
  /\ last.res = "permission"
  /\ last.call.key \in DOMAIN acl
  /\ Owners(acl, last.call.prefix) # <<>>
  /\ last.call.author \notin Range(Owners(acl, last.call.prefix))

\* C24: a write to a prefix with an empty owner list succeeds and makes the
\* writer the only owner; the write of an author outside a non-empty owner
\* list fails with Permission; such an author gets into the list only when
\* an owner adds it with add_author_to_prefix; the write of an author in the
\* list is not refused.
C24_FirstWriterOwns ==
  [][last'.op = "acl" =>
       /\ (IsWrite(last') /\ StoredAuthors(acl, last'.call.prefix).ok
                          /\ Owners(acl, last'.call.prefix) = <<>>) =>
            /\ last'.res \in {"ok", "cas"}
            /\ Owners(acl', last'.call.prefix) = <<last'.call.author>>
       /\ (IsWrite(last') /\ Owners(acl, last'.call.prefix) # <<>>) =>
            (last'.res = "permission")
               = (last'.call.author \notin Range(Owners(acl, last'.call.prefix)))
       /\ \A p \in AclPrefixes : \A b \in AclAuthors :
            (/\ Owners(acl, p) # <<>>
             /\ b \notin Range(Owners(acl, p))
             /\ b \in Range(Owners(acl', p)))
              => /\ last'.call.op = "add_author_to_prefix"
                 /\ last'.call.prefix = p
                 /\ last'.call.new = b
                 /\ last'.call.author \in Range(Owners(acl, p))]_vars

\* C25: a compare_and_swap that returns CompareAndSwap{current, proposed}
\* changes nothing: the value of the key and the owner list of every prefix
\* are as before, also when the prefix of the key had no owner.
C25_CasMismatchNoChange ==
  [][(last'.op = "acl" /\ last'.call.op = "compare_and_swap" /\ last'.res = "cas")
       => /\ TreeGet(acl', last'.call.key) = TreeGet(acl, last'.call.key)
          /\ \A p \in AclPrefixes : TreeGet(acl', p) = TreeGet(acl, p)]_vars

\* C26: a future that is resolved holds the result of the commit of its own
\* submission: the commit of the same transaction by another node or of an
\* earlier submission of it does not resolve the future.
C26_FutureOwnResult ==
  \A f \in 1..Len(txq.futures) :
    IsSome(txq.q.subs[txq.futures[f].subscription].result) =>
      /\ f <= Len(txq.done)
      /\ txq.q.subs[txq.futures[f].subscription].result = Some(txq.done[f])

\* The items export_checkpoint writes for the State: the dump of the author
\* tree followed by the dump of the key-value tree.
ExportOf(self) == write_tree(self.authors.tree) \o write_tree(self.state)

\* The threshold n - 2n/3 of a committee.
CommitteeThreshold(authors) ==
  Cardinality(authors) - (Cardinality(authors) * 2) \div 3

\* The checkpoint handed to the import is the one an export of the State
\* produces: it names the digest of the State's dump, and the file of that
\* name holds the dump.
ImportsOwnExport(self, dir, checkpoint) ==
  /\ checkpoint.checkpoint = HasherSum(ExportOf(self))
  /\ checkpoint.checkpoint \in DOMAIN dir
  /\ dir[checkpoint.checkpoint] = ExportOf(self)

\* C27: checkpoint round trip.  When a State imports the checkpoint that its
\* own export produces, signed by at least threshold members of its
\* committee, both trees hold the same records afterwards as before, and
\* exporting again yields the same digest.
C27_RoundTrip ==
  [][(/\ last'.op = "import"
      /\ ImportsOwnExport(machine, files, last'.checkpoint)
      /\ Cardinality(CheckpointSignees(last'.checkpoint, machine.authors.authors))
           >= CommitteeThreshold(machine.authors.authors))
     => /\ machine'.authors.tree = machine.authors.tree
        /\ machine'.state = machine.state
        /\ export_checkpoint(machine', files').checkpoint = last'.checkpoint.checkpoint]_vars

\* An import that succeeded on a State with a record in the key-value tree
\* and more than one block in the author tree, the trees holding the
\* records of the checkpoint.
C27_Witness ==
  /\ last.op = "import"
  /\ last.res = "ok"
  /\ Len(last.checkpoint.signatures) > 0
  /\ DOMAIN machine.state # {}
  /\ machine.authors.block > 1
  /\ HasherSum(ExportOf(machine)) = last.checkpoint.checkpoint

\* C28: digest mismatch.  When import_checkpoint reads the file named by the
\* checkpoint and the digest of what it read differs from the checkpoint,
\* it fails with InvalidCheckpoint and both trees are empty afterwards.
C28_DigestMismatchClears ==
  [][(/\ last'.op = "import"
      /\ last'.checkpoint.checkpoint \in DOMAIN files
      /\ last'.digest # last'.checkpoint.checkpoint)
     => /\ last'.res = "InvalidCheckpoint"
        /\ DOMAIN machine'.authors.tree = {}
        /\ DOMAIN machine'.state = {}]_vars

\* The committee of the checkpoint file: the authors that from_tree finds
\* in the author-tree records of the file.
ImportedCommittee(bytes) == from_tree(read_tree(<<>>, bytes, 1).tree).chain.authors

\* The trees of the State hold the records of the file.
HoldsRecords(self, bytes) == ExportOf(self) = bytes

\* The in-memory committee is the one the persisted author tree gives.
CommitteeConsistent(self) ==
  /\ from_tree(self.authors.tree).ok
  /\ from_tree(self.authors.tree).chain.authors = self.authors.authors

\* The import reads an intact file whose author chain can be replayed, and
\* fewer than threshold members of the file's committee have signed the
\* checkpoint.
TooFewSignatures(dir, checkpoint) ==
  /\ checkpoint.checkpoint \in DOMAIN dir
  /\ HasherSum(dir[checkpoint.checkpoint]) = checkpoint.checkpoint
  /\ from_tree(read_tree(<<>>, dir[checkpoint.checkpoint], 1).tree).ok
  /\ Cardinality(CheckpointSignees(checkpoint,
                                    ImportedCommittee(dir[checkpoint.checkpoint])))
       < CommitteeThreshold(ImportedCommittee(dir[checkpoint.checkpoint]))

\* C29: too few signatures.  When import_checkpoint is given fewer than
\* threshold valid signatures of distinct members of the imported committee,
\* it fails with InvalidCheckpoint and the state is not swapped in: the
\* trees hold the records of the checkpoint afterwards only if they held
\* them before, and an in-memory committee that agreed with the persisted
\* author tree still agrees with it.
C29_TooFewSignaturesNoSwap ==
  [][(last'.op = "import" /\ TooFewSignatures(files, last'.checkpoint))
     => /\ last'.res = "InvalidCheckpoint"
        /\ HoldsRecords(machine', files[last'.checkpoint.checkpoint])
             => HoldsRecords(machine, files[last'.checkpoint.checkpoint])
        /\ CommitteeConsistent(machine) => CommitteeConsistent(machine')]_vars

\* C30: a proposed checkpoint becomes the SignedCheckpoint of the State only
\* when at least threshold distinct members of the current committee have
\* each given a signature that verifies for the checkpoint hash: when a
\* commit sets the signed checkpoint, that many members of the committee
\* have a valid signature among its signatures.
C30_SignedByCommittee ==
  [][(last'.op = "commit" /\ machine'.checkpoint # machine.checkpoint)
     => Cardinality(CheckpointSignees(Unwrap(machine'.checkpoint),
                                      machine.authors.authors))
          >= CommitteeThreshold(machine.authors.authors)]_vars

\* C31: the vote of a voter at distance diff > 1.  With maj = (yes >= no)
\* and num = max(yes, no), the vote recorded is the coin bit of the voter's
\* signature exactly when diff mod FREQ_COIN_ROUNDS = 0 and num <= threshold;
\* in every other case it is maj.
C31_VoteRule ==
  last.op = "vote" =>
    last.vote = IF last.diff % FREQ_COIN_ROUNDS = 0
                   /\ Max(last.yes, last.no) <= last.threshold
                THEN last.coin
                ELSE last.yes >= last.no

\* C32: Voter::add_event leaves no partial mutation.  Whenever it returns an
\* error, also when the new event is a witness opening a round that does not
\* exist yet and the start_round callback fails, the graph and the round list
\* are those of before the call.
C32_AddEventAtomic ==
  [][(last'.op = "add_event" /\ ~last'.ok /\ ~last'.panic)
     => /\ voter'.graph = voter.graph
        /\ voter'.rounds = voter.rounds]_vars

\* The events of the graph of node n that node n created.
OwnEvents(n) ==
  {h \in DOMAIN nodes[n].voter.graph.events :
     nodes[n].voter.graph.events[h].author = n}

\* C33: an honest node never forks itself.  After any sequence of
\* inbound_sync calls, successful or failed, every event the node created
\* has as self-parent the event it created immediately before (none for its
\* first event), and no two of its events share a seq.
C33_NoSelfFork ==
  \A n \in {1, 2} : \A h \in OwnEvents(n) :
    /\ nodes[n].voter.graph.events[h].self_hash =
         IF {k \in OwnEvents(n) : k < h} = {} THEN None
         ELSE Some(SetMax({k \in OwnEvents(n) : k < h}))
    /\ \A k \in OwnEvents(n) :
         k # h => nodes[n].voter.graph.events[k].seq # nodes[n].voter.graph.events[h].seq

\* C34: the ancestors(e) iterator of every stored event e yields e first and
\* yields no event twice, also when an event is reachable through both
\* parents of a descendant.
C34_AncestorsOnce ==
  \A e \in DOMAIN voter.graph.events :
    /\ ancestors(voter.graph, e)[1] = e
    /\ \A i, j \in 1..Len(ancestors(voter.graph, e)) :
         i # j => ancestors(voter.graph, e)[i] # ancestors(voter.graph, e)[j]

\* C35: re-adding is idempotent.  Passing to add_event an event whose hash
\* is already stored leaves the graph and the rounds unchanged: the stored
\* event keeps its children, round_created, witness, votes, famous and
\* round_received, and its hash is not added a second time to its parents'
\* children or to its round's witnesses.
C35_ReaddIdempotent ==
  [][last'.op = "readd" => voter' = voter]_vars

\* C36: in every reachable graph state the self-parent of each stored event,
\* when present, was created by the author of the event itself: add_event
\* rejects an event whose self_hash names an event of another author.
C36_SelfParentSameAuthor ==
  \A h \in DOMAIN voter.graph.events :
    IsSome(voter.graph.events[h].self_hash)
      => voter.graph.events[Unwrap(voter.graph.events[h].self_hash)].author
           = voter.graph.events[h].author

\* C37: owner lists are protected from data writes.  The stored owner list
\* of a prefix p with a non-empty owner list changes only through
\* add_author_to_prefix or remove_author_from_prefix on p, issued by an
\* author in the list of p: no insert, remove or compare_and_swap
\* overwrites, alters or deletes it.
C37_OwnerListProtected ==
  [][last'.op = "acl" =>
       \A p \in AclPrefixes :
         (Owners(acl, p) # <<>> /\ TreeGet(acl', p) # TreeGet(acl, p))
           => /\ last'.call.op \in {"add_author_to_prefix", "remove_author_from_prefix"}
              /\ last'.call.prefix = p
              /\ last'.call.author \in Range(Owners(acl, p))]_vars

\* C38: sync_state can be called in every reachable state of a node, also on
\* a freshly opened node before any event has been added: it returns without
\* failing, and on the fresh node it reports no seq for any author.
C38_SyncStateTotal ==
  last.op = "sync_state" =>
    /\ ~last.panic
    /\ last.fresh => \A i \in DOMAIN last.seq : last.seq[i] = None

\* C39: exactly-once commit.  Across all process_rounds calls on a voter
\* each event hash is returned at most once: the log of the hashes returned
\* holds no hash twice.
C39_CommitOnce ==
  \A i, j \in 1..Len(log) : i # j => log[i] # log[j]

\* C40: a proposed author block that has fewer than threshold signatures
\* when start_round is called stays pending: after the call hash() still
\* returns the hash of the same proposed block.
C40_UnderSignedStaysPending ==
  [][(/\ last'.op = "start_round"
      /\ IsSome(chain.proposed)
      /\ Len(Unwrap(chain.proposed).signatures)
           < Cardinality(chain.authors) - (Cardinality(chain.authors) * 2) \div 3)
       => /\ IsSome(chain'.proposed)
          /\ Unwrap(chain'.proposed).hash = Unwrap(chain.proposed).hash]_vars

====
